---- MODULE Spec2Model ----
(***************************************************************************)
(* Watch-folder replication pipeline (watch_folder_hires_70).              *)
(*                                                                         *)
(* The model follows the Python sources: QueueManager (the FIFO queue and  *)
(* its four name lists), FileJob (the job record), DownloadWorker (the     *)
(* worker loop and _process_job), FileHandler (safe_copy and               *)
(* copy_with_progress), StateManager (the in-memory state document and the *)
(* state file) and DownloadManager (resume on start, save on progress).    *)
(*                                                                         *)
(* The specifications are defined over the same variables:                 *)
(*   SpecQueue  the QueueManager operations called in any order by any     *)
(*              client that respects the worker protocol;                  *)
(*   Spec       the whole pipeline: detector emission, workers, the copy   *)
(*              routine on a small file system, the state store, crashes   *)
(*              and restarts, source files changed from outside;           *)
(*   SpecPool   the pipeline with every worker of the pool running, in a   *)
(*              process that stays up;                                     *)
(*   SpecWorkers, SpecStop, SpecStore, SpecResize                          *)
(*              the pool resized and stopped while its workers copy;       *)
(*   SpecCopy   one worker whose copy meets permission, I/O and unknown    *)
(*              errors;                                                    *)
(*   SpecMonitor the FileMonitor thread over folders whose files change.   *)
(***************************************************************************)
EXTENDS Integers, Sequences, FiniteSets, TLC

(* ------------------------------ bounds -------------------------------- *)

\* job objects one process creates in its life time
MaxJobs == 2
\* largest size in bytes of a file that appears in a source folder
MaxSize == 2
\* bytes per read of the copy loop (CHUNK_SIZE, scaled down with the files)
ChunkSize == 1
\* changes to a source file after its job was emitted (grow, shrink, vanish)
MaxEnv == 1
\* workers running in Spec (max_parallel); SpecPool runs all of Workers
MaxParallel == 1
\* abrupt ends of the process, each followed by a restart
MaxCrashes == 1
\* calls of set_max_parallel that change the pool
MaxResizes == 2
\* errors raised inside copy_with_progress in SpecCopy
MaxFaults == 5
\* worker threads alive at one time
MaxThreads == 3
\* arrivals, size changes and removals of source files in SpecMonitor
MaxFsSteps == 2
\* calls of os.path.getsize that raise in SpecMonitor
MaxSizeErrors == 1

(* ----------------------------- constants ------------------------------ *)

STATUS_WAITING == "waiting"
STATUS_DOWNLOADING == "downloading"
STATUS_COMPLETED == "completed"
STATUS_FAILED == "failed"

\* basenames of the files
Names == {"a", "b"}
\* worker threads
Workers == {1, 2}
\* the worker threads that can exist in a run: those start() creates and the
\* ones set_max_parallel adds beside them
Threads == 1..MaxThreads
\* the max_retry values a client of the queue gives a job in SpecQueue
RetryChoices == {0, 2}
JobIds == 1..MaxJobs
\* FileJob.max_retry: the dataclass default, which the detector never overrides
DEFAULT_JOB_MAX_RETRY == 3
\* CHECKPOINT_PERCENT
CHECKPOINT_PERCENT == 10
\* max_retries of copy_with_progress
COPY_MAX_RETRIES == 5
\* base_delay of copy_with_progress, in seconds
BASE_DELAY == 1
\* the kinds of exception copy_with_progress tells apart
FaultKinds == {"permission", "io", "unknown"}
\* the source files: <<folder, name>>
SrcPaths == {<<1, "a">>, <<1, "b">>, <<2, "a">>}
\* the source folders
Folders == {1, 2}
\* the extension of each file name
ExtOf(n) == IF n = "a" THEN ".mp4" ELSE ".mkv"
\* the configuration with every folder and every extension
AllFolders == <<1, 2>>
AllExtensions == {".mp4", ".mkv"}
\* the folder lists and extension lists the settings can hold
FolderLists == {<<1>>, <<1, 2>>}
ExtensionLists == {{".mp4"}, {".mp4", ".mkv"}}

(* ------------------------------ state --------------------------------- *)

VARIABLES
  job,            \* the FileJob objects of this process: id -> fields
  nJobs,          \* the number of FileJob objects created so far
  queue,          \* QueueManager.queue: the queue.Queue of job objects
  jobs,           \* QueueManager.jobs: dict name -> job object, in key order
  waiting_jobs,   \* QueueManager.waiting_jobs: list of names
  active_jobs,    \* QueueManager.active_jobs: list of names
  completed_jobs, \* QueueManager.completed_jobs: list of names
  failed_jobs,    \* QueueManager.failed_jobs: list of names
  wpc,            \* each worker's position in run / _process_job
  wjob,           \* each worker's local variable job (0: none)
  enq,            \* history: the job objects in the order of queue.put
  deq,            \* history: the job objects in the order of queue.get
  callbacks,      \* QueueManager.callbacks: the number of registered callbacks
  notified,       \* history: the calls the callbacks got in the last operation
                  \* of the queue that notifies
  w_attempt,      \* each worker's attempt of the loop in copy_with_progress
  src,            \* the source folders: path -> size in bytes (-1: no file)
  dst,            \* the destination folder: path -> the bytes of the file
  state_jobs,     \* StateManager.state['jobs']: dict name -> job dict
  state_file,     \* the 'jobs' of pipeline_state.json on disk (empty: none)
  history,        \* the rows of copy_history.txt
  proc,           \* "boot": the process is starting, "up": it runs
  pending,        \* the files the detector waits on to emit a job
  envLeft,        \* changes to emitted source files that may still happen
  crashes,        \* abrupt ends so far
  w_running,      \* DownloadWorker.running of each worker thread
  w_inget,        \* the workers whose flag was cleared while they waited in
                  \* queue.get: they passed the loop test before
  workers,        \* DownloadManager.workers: list of worker ids
  max_parallel,   \* DownloadManager.max_parallel
  dm_pc,          \* DownloadManager: "running", inside stop(), "stopped"
  resizes,        \* calls of set_max_parallel so far
  source_folders, \* FileMonitor.source_folders: list of folders
  extensions,     \* FileMonitor.extensions
  seen_files,     \* FileMonitor.seen_files: folder -> set of file names
  stable_files,   \* FileMonitor.stable_files, in insertion order
  mon_pc,         \* FileMonitor: "off", then "scan" and "check" in turns
  mon_i,          \* _check_stable_files: the entry the loop is at
  fs_left,        \* arrivals, size changes and removals that may still happen
  err_left,       \* failures of os.path.getsize that may still happen
  emits,          \* history: jobs emitted per path since it last appeared
  old_start,      \* history: the files present ever since FileMonitor.start
  old_added,      \* history: the files present ever since their folder was
                  \* added to source_folders
  fault_left,     \* errors raised inside copy_with_progress that may still happen
  w_delays,       \* history: the delays each worker slept in its current
                  \* call of copy_with_progress
  sv_jobs,        \* save() called by stop(): the local jobs_dict, once built
  called          \* history: the callbacks each worker's current call of
                  \* safe_copy has invoked, in order

qvars == <<queue, jobs, waiting_jobs, active_jobs, completed_jobs, failed_jobs>>
hvars == <<enq, deq, callbacks, notified>>
wvars == <<wpc, wjob>>
\* what only the pipeline changes
pvars == <<w_attempt, src, dst, state_jobs, state_file, history, proc, pending,
           envLeft, crashes>>
\* the worker pool of the DownloadManager
mvars == <<w_running, w_inget, workers, max_parallel, dm_pc, resizes>>
\* the FileMonitor and the source folders' history
dvars == <<source_folders, extensions, seen_files, stable_files, mon_pc, mon_i,
           fs_left, err_left, emits, old_start, old_added>>
\* the errors of the copy and the delays of its backoff; the locals of the
\* save that stop() runs
fvars == <<fault_left, w_delays, sv_jobs, called>>
vars == <<job, nJobs, qvars, wvars, hvars, pvars, mvars, dvars, fvars>>

(* ----------------------------- helpers -------------------------------- *)

InSeq(s, x) == \E i \in 1..Len(s) : s[i] = x

Count(s, x) == Cardinality({i \in 1..Len(s) : s[i] = x})

\* list.index(x) + 1 for an x that is in the list
IndexOf(s, x) == CHOOSE i \in 1..Len(s) : s[i] = x /\ \A k \in 1..(i - 1) : s[k] # x

\* list.remove(x): drops the first occurrence
ListRemove(s, x) ==
  IF InSeq(s, x)
  THEN LET i == IndexOf(s, x) IN SubSeq(s, 1, i - 1) \o SubSeq(s, i + 1, Len(s))
  ELSE s

\* A Python dict is the sequence of its items [k, v] in insertion order.
DictHas(d, k) == \E i \in 1..Len(d) : d[i].k = k

DictGet(d, k) == d[CHOOSE i \in 1..Len(d) : d[i].k = k].v

\* d[k] = v: a new key goes to the end, an old key keeps its place
DictSet(d, k, v) ==
  IF DictHas(d, k)
  THEN [i \in 1..Len(d) |-> IF d[i].k = k THEN [k |-> k, v |-> v] ELSE d[i]]
  ELSE Append(d, [k |-> k, v |-> v])

\* del d[k] for a key of d
DictDel(d, k) ==
  LET i == CHOOSE i \in 1..Len(d) : d[i].k = k
  IN SubSeq(d, 1, i - 1) \o SubSeq(d, i + 1, Len(d))

(* ------------------------------ FileJob ------------------------------- *)

\* A source path is <<folder, name>>; a destination path is the name followed
\* by the counters of the " (n)" suffixes put before the extension, so
\* <<"a">> is D/a.ext and <<"a", 1>> is D/a (1).ext; <<>> is the empty string.
NoPath == <<>>

\* a FileJob as the dataclass builds it (the defaults of the optional fields);
\* progress holds int(progress), the only way the code reads the float
NewFileJob(name, source_path, dest_path, size_bytes, max_retry) ==
  [name |-> name, source_path |-> source_path, dest_path |-> dest_path,
   size_bytes |-> size_bytes, status |-> STATUS_WAITING, progress |-> 0,
   copied_bytes |-> 0, end_time |-> "none", queue_position |-> 0,
   retry_count |-> 0, max_retry |-> max_retry, last_error |-> "",
   last_checkpoint |-> 0]

\* no object
NoJob ==
  [name |-> "", source_path |-> NoPath, dest_path |-> NoPath,
   size_bytes |-> 0, status |-> "none", progress |-> 0,
   copied_bytes |-> 0, end_time |-> "none", queue_position |-> 0,
   retry_count |-> 0, max_retry |-> 0, last_error |-> "",
   last_checkpoint |-> 0]

(* ---------------------------- QueueManager ---------------------------- *)

\* _notify_callbacks(event, job): one call per registered callback
NotifyCallbacks(event, name) ==
  [i \in 1..callbacks |-> [event |-> event, name |-> name]]

\* _notify_callbacks(event, job) for the jobs of the names in turn
RECURSIVE NotifyEach(_, _)
NotifyEach(event, names) ==
  IF names = <<>> THEN <<>>
  ELSE NotifyCallbacks(event, Head(names)) \o NotifyEach(event, Tail(names))

\* name in self.jobs and self.jobs[name] is the object j
JobsEntryIs(d, name, j) == DictHas(d, name) /\ DictGet(d, name) = j

\* _update_positions over the lists w (waiting names) and d (the jobs dict)
\* applied to the objects jb: the object d[name] gets i + 1 for each index i
\* of the list in order, so the last occurrence of a name decides
UpdatePositions(jb, w, d) ==
  [j \in JobIds |->
     IF \E i \in 1..Len(w) : JobsEntryIs(d, w[i], j)
     THEN [jb[j] EXCEPT !.queue_position =
             CHOOSE i \in 1..Len(w) :
               /\ JobsEntryIs(d, w[i], j)
               /\ \A k \in (i + 1)..Len(w) : ~JobsEntryIs(d, w[k], j)]
     ELSE jb[j]]

\* get_position
GetPosition(w, name) == IF InSeq(w, name) THEN IndexOf(w, name) ELSE 0

\* queue.put(j) that puts j at the head
QueuePutHead(q, j) == <<j>> \o q

\* a put that stores the object twice
QueuePutTwice(q, j) == q \o <<j, j>>

\* queue.put(j): queue.Queue is first in, first out
QueuePut(q, j) == Append(q, j)

\* add_job(job) on the queue fields st for the new object j with fields rec
AddJobTo(st, j, rec) ==
  LET stored == [rec EXCEPT !.status = STATUS_WAITING]
      d == DictSet(st.jobs, rec.name, j)
      w == Append(st.waiting_jobs, rec.name)
  IN [jobs |-> d,
      waiting_jobs |-> w,
      queue |-> QueuePut(st.queue, j),
      enq |-> Append(st.enq, j),
      job |-> UpdatePositions([st.job EXCEPT ![j] = stored], w, d)]

\* add_job(job) for the new object j with fields rec
AddJob(j, rec) ==
  LET st == AddJobTo([jobs |-> jobs, waiting_jobs |-> waiting_jobs,
                      queue |-> queue, enq |-> enq, job |-> job], j, rec)
  IN /\ jobs' = st.jobs
     /\ waiting_jobs' = st.waiting_jobs
     /\ queue' = st.queue
     /\ enq' = st.enq
     /\ job' = st.job
     /\ notified' = NotifyCallbacks("added", rec.name)
     /\ UNCHANGED <<active_jobs, completed_jobs, failed_jobs, deq, callbacks>>

\* get_next_job, first half: queue.get(timeout=1) hands the head of the queue
\* to the calling worker; the lock is taken only afterwards
QueueGet(w) ==
  /\ wpc[w] = "idle"
  /\ queue # <<>>
  /\ wjob' = [wjob EXCEPT ![w] = Head(queue)]
  /\ queue' = Tail(queue)
  /\ deq' = Append(deq, Head(queue))
  /\ wpc' = [wpc EXCEPT ![w] = "got"]
  /\ UNCHANGED <<job, nJobs, jobs, waiting_jobs, active_jobs, completed_jobs,
                 failed_jobs, enq, callbacks, notified>>

\* get_next_job, second half, under the lock: the job is marked downloading
\* and returned, or dropped (None) when its name has no entry in jobs
GetNextJob(w) ==
  /\ wpc[w] = "got"
  /\ LET j == wjob[w]
         name == job[j].name
     IN IF DictHas(jobs, name)
        THEN /\ job' = [job EXCEPT ![j].status = STATUS_DOWNLOADING]
             /\ active_jobs' = Append(active_jobs, name)
             /\ waiting_jobs' = ListRemove(waiting_jobs, name)
             /\ wpc' = [wpc EXCEPT ![w] = "process"]
             /\ notified' = NotifyCallbacks("started", name)
             /\ UNCHANGED wjob
        ELSE /\ wpc' = [wpc EXCEPT ![w] = "idle"]
             /\ wjob' = [wjob EXCEPT ![w] = 0]
             /\ notified' = <<>>
             /\ UNCHANGED <<job, active_jobs, waiting_jobs>>
  /\ UNCHANGED <<nJobs, queue, jobs, completed_jobs, failed_jobs, enq, deq,
                 callbacks>>

\* complete_job(job, success)
CompleteJob(j, success) ==
  LET name == job[j].name IN
  IF ~DictHas(jobs, name)
  THEN /\ notified' = <<>>
       /\ UNCHANGED <<job, qvars, enq, deq, callbacks>>
  ELSE /\ IF success
          THEN /\ completed_jobs' = Append(completed_jobs, name)
               /\ UNCHANGED failed_jobs
          ELSE /\ failed_jobs' = Append(failed_jobs, name)
               /\ UNCHANGED completed_jobs
       /\ active_jobs' = ListRemove(active_jobs, name)
       /\ job' = UpdatePositions(
                   [job EXCEPT ![j].status =
                      IF success THEN STATUS_COMPLETED ELSE STATUS_FAILED],
                   waiting_jobs, jobs)
       /\ notified' = NotifyCallbacks(IF success THEN "completed" ELSE "failed",
                                      name)
       /\ UNCHANGED <<queue, jobs, waiting_jobs, enq, deq, callbacks>>

\* the retry test of fail_job with <= for <
WillRetryLe(rec, retry) == retry /\ rec.retry_count <= rec.max_retry

\* the retry test of fail_job on the job fields after the increment
WillRetry(rec, retry) == retry /\ rec.retry_count < rec.max_retry

\* a fail_job that records the error and leaves retry_count alone
CountFailureNot(rec, error) == [rec EXCEPT !.last_error = error]

\* job.retry_count += 1; job.last_error = error
CountFailure(rec, error) ==
  [rec EXCEPT !.retry_count = @ + 1, !.last_error = error]

\* fail_job(job, error, retry)
FailJob(j, error, retry) ==
  LET name == job[j].name
      counted == CountFailure(job[j], error)
      again == WillRetry(counted, retry)
      w == IF again THEN Append(waiting_jobs, name) ELSE waiting_jobs
  IN /\ waiting_jobs' = w
     /\ queue' = IF again THEN QueuePut(queue, j) ELSE queue
     /\ enq' = IF again THEN Append(enq, j) ELSE enq
     /\ failed_jobs' = IF again THEN failed_jobs ELSE Append(failed_jobs, name)
     /\ active_jobs' = ListRemove(active_jobs, name)
     /\ job' = UpdatePositions(
                 [job EXCEPT ![j] =
                    [counted EXCEPT !.status =
                       IF again THEN STATUS_WAITING ELSE STATUS_FAILED]],
                 w, jobs)
     /\ notified' = NotifyCallbacks("failed", name)
     /\ UNCHANGED <<jobs, completed_jobs, deq, callbacks>>

\* the items of the jobs dict whose names are in neither list
DropNames(d, gone) ==
  LET keep == {i \in 1..Len(d) : ~InSeq(gone, d[i].k)}
      F[i \in 0..Len(d)] ==
        IF i = 0 THEN <<>>
        ELSE IF i \in keep THEN Append(F[i - 1], d[i]) ELSE F[i - 1]
  IN F[Len(d)]

\* clear_completed
ClearCompleted ==
  /\ jobs' = DropNames(jobs, completed_jobs \o failed_jobs)
  /\ completed_jobs' = <<>>
  /\ failed_jobs' = <<>>
  /\ UNCHANGED <<job, nJobs, queue, waiting_jobs, active_jobs, wvars, hvars>>

(* ------------------- the queue under any client: SpecQueue ------------ *)

\* DownloadManager.start: one running worker thread per slot of the pool
\* FileMonitor.__init__ with the folder list fl and the extension list ex
InitMonitor(fl, ex) ==
  /\ source_folders = fl
  /\ extensions = ex
  /\ seen_files = [f \in Folders |-> {}]
  /\ stable_files = <<>>
  /\ mon_pc = "off"
  /\ mon_i = 1
  /\ fs_left = 0
  /\ err_left = 0
  /\ emits = [p \in SrcPaths |-> 0]
  /\ old_start = {}
  /\ old_added = {}

\* n errors may be raised inside copy_with_progress
InitFaults(n) ==
  /\ fault_left = n
  /\ w_delays = [w \in Threads |-> <<>>]
  /\ sv_jobs = <<>>
  /\ called = [w \in Threads |-> <<>>]

InitManager ==
  /\ w_running = [w \in Threads |-> w \in Workers]
  /\ w_inget = {}
  /\ workers = [i \in 1..Cardinality(Workers) |-> i]
  /\ max_parallel = Cardinality(Workers)
  /\ dm_pc = "running"
  /\ resizes = 0

InitQueue ==
  /\ InitManager
  /\ InitMonitor(AllFolders, AllExtensions)
  /\ InitFaults(0)
  /\ job = [j \in JobIds |-> NoJob]
  /\ nJobs = 0
  /\ queue = <<>>
  /\ jobs = <<>>
  /\ waiting_jobs = <<>>
  /\ active_jobs = <<>>
  /\ completed_jobs = <<>>
  /\ failed_jobs = <<>>
  /\ wpc = [w \in Threads |-> IF w \in Workers THEN "idle" ELSE "stopped"]
  /\ wjob = [w \in Threads |-> 0]
  /\ enq = <<>>
  /\ deq = <<>>
  /\ callbacks = 1
  /\ notified = <<>>
  /\ w_attempt = [w \in Threads |-> 0]
  /\ src = [p \in SrcPaths |-> -1]
  /\ dst = <<>>
  /\ state_jobs = <<>>
  /\ state_file = <<>>
  /\ history = <<>>
  /\ proc = "up"
  /\ pending = {}
  /\ envLeft = 0
  /\ crashes = 0

\* a client (the detector, the resume) adds a new job of any name
ClientAdd(name, max_retry) ==
  /\ nJobs < MaxJobs
  /\ nJobs' = nJobs + 1
  /\ AddJob(nJobs + 1, NewFileJob(name, <<1, name>>, NoPath, 0, max_retry))
  /\ UNCHANGED wvars

\* the worker that holds a job reports it complete
ClientComplete(w, success) ==
  /\ wpc[w] = "process"
  /\ CompleteJob(wjob[w], success)
  /\ wpc' = [wpc EXCEPT ![w] = "idle"]
  /\ wjob' = [wjob EXCEPT ![w] = 0]
  /\ UNCHANGED nJobs

\* the worker that holds a job reports it failed
ClientFail(w, retry) ==
  /\ wpc[w] = "process"
  /\ FailJob(wjob[w], "error", retry)
  /\ wpc' = [wpc EXCEPT ![w] = "idle"]
  /\ wjob' = [wjob EXCEPT ![w] = 0]
  /\ UNCHANGED nJobs

NextQueue ==
  \/ \E n \in Names, m \in RetryChoices : ClientAdd(n, m) /\ UNCHANGED <<pvars, mvars, dvars, fvars>>
  \/ \E w \in Workers : QueueGet(w) /\ UNCHANGED <<pvars, mvars, dvars, fvars>>
  \/ \E w \in Workers : GetNextJob(w) /\ UNCHANGED <<pvars, mvars, dvars, fvars>>
  \/ \E w \in Workers, s \in BOOLEAN : ClientComplete(w, s) /\ UNCHANGED <<pvars, mvars, dvars, fvars>>
  \/ \E w \in Workers, r \in BOOLEAN : ClientFail(w, r) /\ UNCHANGED <<pvars, mvars, dvars, fvars>>
  \/ ClearCompleted /\ UNCHANGED <<pvars, mvars, dvars, fvars>>

SpecQueue == InitQueue /\ [][NextQueue]_vars

(* ---------------------------- file system ---------------------------- *)

\* The byte at offset i - 1 of the source file p: every byte of every source
\* file is its own value, and 0 is the byte a hole of a sparse file reads as.
FileNo(p) == IF p = <<1, "a">> THEN 1 ELSE IF p = <<1, "b">> THEN 2 ELSE 3

Byte(p, i) == FileNo(p) * 10 + i

\* the bytes of the source file p
SrcContent(p) == [i \in 1..src[p] |-> Byte(p, i)]

\* os.path.exists of a source path and of a destination path
SrcExists(p) == p \in SrcPaths /\ src[p] >= 0

DstExists(p) == p \in DOMAIN dst

\* the file c after bytes are written at offset pos: the file grows to hold
\* them, a gap between its end and pos reads as zeros
WriteAt(c, pos, bytes) ==
  LET n == IF Len(c) > pos + Len(bytes) THEN Len(c) ELSE pos + Len(bytes)
  IN [i \in 1..n |->
        IF i > pos /\ i <= pos + Len(bytes) THEN bytes[i - pos]
        ELSE IF i <= Len(c) THEN c[i] ELSE 0]

\* src_file.read(chunk_size) at offset pos of the source file p
ReadChunk(p, pos) ==
  LET n == IF src[p] - pos >= ChunkSize THEN ChunkSize
           ELSE IF src[p] > pos THEN src[p] - pos ELSE 0
  IN [i \in 1..n |-> Byte(p, pos + i)]

\* the destination folder after path p is given the bytes c
DstPut(p, c) == [q \in DOMAIN dst \cup {p} |-> IF q = p THEN c ELSE dst[q]]

\* get_unique_dest_path that returns the plain path whether it exists or not
GetUniqueDestPathPlain(p) == p

\* get_unique_dest_path for the file name of path p
GetUniqueDestPath(p) ==
  IF ~DstExists(p) THEN p
  ELSE LET counter == CHOOSE n \in 1..(Cardinality(DOMAIN dst) + 1) :
                        /\ ~DstExists(Append(p, n))
                        /\ \A m \in 1..(n - 1) : DstExists(Append(p, m))
       IN Append(p, counter)

(* ---------------------- FileJob: to_dict, from_dict ------------------- *)

\* to_dict raises AttributeError on an end_time that is the float of
\* time.time(): a float has no isoformat
CanSerialize(rec) == rec.end_time # "float"

\* to_dict of a job whose timestamps are datetimes or None
ToDict(rec) ==
  [name |-> rec.name, source_path |-> rec.source_path,
   dest_path |-> rec.dest_path, size_bytes |-> rec.size_bytes,
   status |-> rec.status, progress |-> rec.progress,
   copied_bytes |-> rec.copied_bytes, end_time |-> "none",
   queue_position |-> rec.queue_position, retry_count |-> rec.retry_count,
   max_retry |-> rec.max_retry, last_error |-> rec.last_error,
   last_checkpoint |-> rec.last_checkpoint]

\* from_dict
FromDict(d) ==
  [name |-> d.name, source_path |-> d.source_path, dest_path |-> d.dest_path,
   size_bytes |-> d.size_bytes, status |-> d.status, progress |-> d.progress,
   copied_bytes |-> d.copied_bytes, end_time |-> d.end_time,
   queue_position |-> d.queue_position, retry_count |-> d.retry_count,
   max_retry |-> d.max_retry, last_error |-> d.last_error,
   last_checkpoint |-> d.last_checkpoint]

(* ----------------------------- StateManager --------------------------- *)

\* update_job(job) on the in-memory document st: the exception of to_dict is
\* caught and leaves the document as it was
UpdateJob(st, rec) ==
  IF CanSerialize(rec) THEN DictSet(st, rec.name, ToDict(rec)) ELSE st

\* get_all_jobs over the objects jb
GetAllJobs(jb) == [i \in 1..Len(jobs) |-> jb[jobs[i].v]]

\* the jobs dict save(jobs) builds from the list all
SavedJobs(all) == [i \in 1..Len(all) |-> [k |-> all[i].name, v |-> ToDict(all[i])]]

\* save(jobs) succeeds when every to_dict does
CanSave(all) == \A i \in 1..Len(all) : CanSerialize(all[i])

\* every stored job that is not completed counts as resumable
GetResumableJobsLoose(st) ==
  SelectSeq(st, LAMBDA it : it.v.status # STATUS_COMPLETED)

\* get_resumable_jobs over the document st
GetResumableJobs(st) ==
  SelectSeq(st, LAMBDA it : it.v.status \in {STATUS_DOWNLOADING, STATUS_WAITING})

\* StateManager.clear_completed over the document st
StateClearCompleted(st) ==
  SelectSeq(st, LAMBDA it : it.v.status \notin {STATUS_COMPLETED, STATUS_FAILED})

\* the state file as a crash inside save leaves it: open(path, 'w') has
\* emptied it and json.dump has not finished; it is not a JSON document
TornFile == <<[k |-> "", v |-> ToDict(NoJob)]>>

\* load: the jobs of the state file; when json.load raises, the jobs of the
\* fresh in-memory document
LoadState(file) == IF file = TornFile THEN <<>> ELSE file

(* ---------------------------- DownloadManager ------------------------ *)

\* _save_state on the objects jb: the documents <<state['jobs'], file>> after
\* save(get_all_jobs()); a to_dict that raises leaves both as they were
SaveState(jb, st, file) ==
  IF CanSave(GetAllJobs(jb))
  THEN <<SavedJobs(GetAllJobs(jb)), SavedJobs(GetAllJobs(jb))>>
  ELSE <<st, file>>

\* update_progress saves when int(job.progress) % 10 == 0
SavesOnProgress(progress) == progress % 10 = 0

\* _load_resume_state: add_job(from_dict(d)) for the resumable dicts ds in
\* their order, on the queue fields st, the objects numbered from n + 1
RECURSIVE ResumeJobs(_, _, _)
ResumeJobs(ds, st, n) ==
  IF ds = <<>> THEN st
  ELSE ResumeJobs(Tail(ds), AddJobTo(st, n + 1, FromDict(Head(ds).v)), n + 1)

\* main and DownloadManager.start: load the state file, put the resumable
\* jobs on the queue, drop the finished ones from the in-memory document,
\* start the workers
Start ==
  /\ proc = "boot"
  /\ LET loaded == LoadState(state_file)
         ds == GetResumableJobs(loaded)
         st == ResumeJobs(ds, [jobs |-> jobs, waiting_jobs |-> waiting_jobs,
                               queue |-> queue, enq |-> enq, job |-> job], nJobs)
     IN /\ jobs' = st.jobs
        /\ waiting_jobs' = st.waiting_jobs
        /\ queue' = st.queue
        /\ enq' = st.enq
        /\ job' = st.job
        /\ nJobs' = nJobs + Len(ds)
        /\ state_jobs' = StateClearCompleted(loaded)
        /\ notified' = NotifyEach("added", [i \in 1..Len(ds) |-> ds[i].v.name])
  /\ proc' = "up"
  /\ UNCHANGED <<active_jobs, completed_jobs, failed_jobs, deq, callbacks, wvars, w_attempt,
                 src, dst, state_file, history, pending, envLeft,
                 crashes>>

(* ------------------------------ FileMonitor --------------------------- *)

\* _check_stable_files for a file found stable: a job with the file name, the
\* path, an empty dest_path and the size just read goes on the queue
Detect(p) ==
  /\ proc = "up"
  /\ p \in pending
  /\ SrcExists(p)
  /\ nJobs < MaxJobs
  /\ nJobs' = nJobs + 1
  /\ AddJob(nJobs + 1, NewFileJob(p[2], p, NoPath, src[p], DEFAULT_JOB_MAX_RETRY))
  /\ pending' = pending \ {p}
  /\ UNCHANGED <<wvars, w_attempt, src, dst, state_jobs, state_file, history,
                 proc, envLeft, crashes>>

(* ----------------------------- DownloadWorker ------------------------- *)

\* _process_job up to the call of safe_copy: the path checks, then status
\* downloading and update_job. The destination folder is configured, exists
\* and is writable.
ProcessJobPreflight(w) ==
  /\ proc = "up"
  /\ wpc[w] = "process"
  /\ LET j == wjob[w]
         rec == job[j]
     IN IF rec.source_path = NoPath
        THEN /\ FailJob(j, "Source path is empty", FALSE)
             /\ wpc' = [wpc EXCEPT ![w] = "idle"]
             /\ wjob' = [wjob EXCEPT ![w] = 0]
             /\ UNCHANGED state_jobs
        ELSE IF ~SrcExists(rec.source_path)
        THEN /\ FailJob(j, "Source file not found", TRUE)
             /\ wpc' = [wpc EXCEPT ![w] = "idle"]
             /\ wjob' = [wjob EXCEPT ![w] = 0]
             /\ UNCHANGED state_jobs
        ELSE LET ready == [rec EXCEPT
                             !.dest_path = IF @ = NoPath THEN <<rec.name>> ELSE @,
                             !.status = STATUS_DOWNLOADING]
             IN /\ job' = [job EXCEPT ![j] = ready]
                /\ state_jobs' = UpdateJob(state_jobs, ready)
                /\ wpc' = [wpc EXCEPT ![w] = "safe_copy"]
                /\ UNCHANGED <<wjob, qvars, hvars>>
  /\ UNCHANGED <<nJobs, w_attempt, src, dst, state_file, history, proc, pending,
                 envLeft, crashes>>
               
\* safe_copy up to the call of copy_with_progress: the source must exist, the
\* live size replaces size_bytes, the destination path is made unique
SafeCopyPreflight(w) ==
  /\ proc = "up"
  /\ wpc[w] = "safe_copy"
  /\ LET j == wjob[w]
         rec == job[j]
     IN IF ~SrcExists(rec.source_path)
        THEN /\ job' = [job EXCEPT ![j].last_error = "Source file does not exist"]
             /\ wpc' = [wpc EXCEPT ![w] = "failed"]
        ELSE /\ job' = [job EXCEPT ![j].size_bytes = src[rec.source_path],
                                   ![j].dest_path = GetUniqueDestPath(rec.dest_path)]
             /\ wpc' = [wpc EXCEPT ![w] = "open"]
  /\ w_attempt' = [w_attempt EXCEPT ![w] = 0]
  /\ UNCHANGED <<nJobs, qvars, hvars, wjob, src, dst, state_jobs, state_file,
                 history, proc, pending, envLeft, crashes>>

\* the destination file as open(dest_path, 'wb') leaves it
OpenKeep(p) == IF DstExists(p) THEN dst[p] ELSE <<>>

OpenForWrite(p) == <<>>

\* copy_with_progress, the start of an attempt: the source is opened for
\* reading, the destination for writing, both seek to job.copied_bytes
CopyOpen(w) ==
  /\ proc = "up"
  /\ wpc[w] = "open"
  /\ LET j == wjob[w]
         rec == job[j]
     IN IF ~SrcExists(rec.source_path)
        THEN /\ job' = [job EXCEPT ![j].last_error = "Source file not found"]
             /\ wpc' = [wpc EXCEPT ![w] = "failed"]
             /\ UNCHANGED dst
        ELSE /\ dst' = DstPut(rec.dest_path, OpenForWrite(rec.dest_path))
             /\ wpc' = [wpc EXCEPT ![w] = "chunk"]
             /\ UNCHANGED job
  /\ UNCHANGED <<nJobs, qvars, hvars, wjob, w_attempt, src, state_jobs,
                 state_file, history, proc, pending, envLeft, crashes>>

\* int(percent) of copied bytes out of total
Percent(copied, total) == (copied * 100) \div total

\* the checkpoint rounded up to the next multiple
CheckpointOfCeil(percent) ==
  ((percent + CHECKPOINT_PERCENT - 1) \div CHECKPOINT_PERCENT) * CHECKPOINT_PERCENT

\* int(percent // CHECKPOINT_PERCENT) * CHECKPOINT_PERCENT
CheckpointOf(percent) == (percent \div CHECKPOINT_PERCENT) * CHECKPOINT_PERCENT

\* copy_with_progress ends and safe_copy returns True without looking at
\* the destination
CopyFinishUnverified(w) ==
  /\ job' = [job EXCEPT ![wjob[w]] =
               [job[wjob[w]] EXCEPT !.copied_bytes = job[wjob[w]].size_bytes,
                                    !.progress = 100, !.end_time = "float"]]
  /\ wpc' = [wpc EXCEPT ![w] = "success"]

\* the loop of copy_with_progress ends: the job is set to size_bytes copied,
\* 100 % and an end_time, and safe_copy verifies the size of the destination
CopyFinish(w) ==
  LET j == wjob[w]
      rec == job[j]
      done == [rec EXCEPT !.copied_bytes = rec.size_bytes, !.progress = 100,
                          !.end_time = "float"]
  IN IF ~DstExists(rec.dest_path)
     THEN /\ job' = [job EXCEPT ![j] =
                       [done EXCEPT !.last_error = "Destination file missing after copy"]]
          /\ wpc' = [wpc EXCEPT ![w] = "failed"]
     ELSE IF Len(dst[rec.dest_path]) # rec.size_bytes
     THEN /\ job' = [job EXCEPT ![j] =
                       [done EXCEPT !.last_error = "Size mismatch after copy"]]
          /\ wpc' = [wpc EXCEPT ![w] = "failed"]
     ELSE /\ job' = [job EXCEPT ![j] = done]
          /\ wpc' = [wpc EXCEPT ![w] = "success"]

\* one pass of the while loop of copy_with_progress: the loop test, the read,
\* the write, progress_callback (with update_progress) and the checkpoint
CopyChunk(w) ==
  /\ proc = "up"
  /\ wpc[w] = "chunk"
  /\ LET j == wjob[w]
         rec == job[j]
         sp == rec.source_path
         total == rec.size_bytes
         pos == rec.copied_bytes
     IN IF pos >= total
        THEN /\ CopyFinish(w)
             /\ UNCHANGED <<dst, state_jobs, state_file, w_attempt>>
        ELSE IF ~SrcExists(sp)
        THEN \* the read raises IOError
             /\ IF w_attempt[w] < COPY_MAX_RETRIES - 1
                THEN /\ w_attempt' = [w_attempt EXCEPT ![w] = @ + 1]
                     /\ wpc' = [wpc EXCEPT ![w] = "open"]
                     /\ UNCHANGED job
                ELSE /\ job' = [job EXCEPT ![j].last_error = "IO Error"]
                     /\ wpc' = [wpc EXCEPT ![w] = "failed"]
                     /\ UNCHANGED w_attempt
             /\ UNCHANGED <<dst, state_jobs, state_file>>
        ELSE IF ReadChunk(sp, pos) = <<>>
        THEN \* if not chunk: break
             /\ CopyFinish(w)
             /\ UNCHANGED <<dst, state_jobs, state_file, w_attempt>>
        ELSE LET chunk == ReadChunk(sp, pos)
                 copied == pos + Len(chunk)
                 percent == Percent(copied, total)
                 told == [rec EXCEPT !.copied_bytes = copied, !.progress = percent]
                 saved == IF SavesOnProgress(percent)
                          THEN SaveState([job EXCEPT ![j] = told], state_jobs, state_file)
                          ELSE <<state_jobs, state_file>>
                 marked == [told EXCEPT !.last_checkpoint = CheckpointOf(percent)]
             IN /\ dst' = DstPut(rec.dest_path,
                                 WriteAt(OpenKeep(rec.dest_path), pos, chunk))
                /\ state_file' = saved[2]
                /\ IF CheckpointOf(percent) > rec.last_checkpoint
                   THEN /\ job' = [job EXCEPT ![j] = marked]
                        /\ state_jobs' = UpdateJob(saved[1], marked)
                   ELSE /\ job' = [job EXCEPT ![j] = told]
                        /\ state_jobs' = saved[1]
                /\ UNCHANGED <<wpc, w_attempt>>
  /\ UNCHANGED <<nJobs, qvars, hvars, wjob, src, history, proc, pending,
                 envLeft, crashes>>
               
\* _process_job after safe_copy returned True: status completed, the SUCCESS
\* row, update_job
ProcessJobSuccess(w) ==
  /\ proc = "up"
  /\ wpc[w] = "success"
  /\ LET j == wjob[w]
         done == [job[j] EXCEPT !.status = STATUS_COMPLETED, !.end_time = "float"]
     IN /\ job' = [job EXCEPT ![j] = done]
        /\ history' = Append(history, [status |-> "SUCCESS", filename |-> done.name,
                                       retry_count |-> done.retry_count,
                                       error |-> ""])
        /\ state_jobs' = UpdateJob(state_jobs, done)
  /\ wpc' = [wpc EXCEPT ![w] = "delete"]
  /\ UNCHANGED <<nJobs, qvars, hvars, wjob, w_attempt, src, dst, state_file,
                 proc, pending, envLeft, crashes>>

\* _process_job, the end of the success branch: the source file is deleted
\* and the queue is told
ProcessJobDelete(w) ==
  /\ proc = "up"
  /\ wpc[w] = "delete"
  /\ src' = [src EXCEPT ![job[wjob[w]].source_path] = -1]
  /\ CompleteJob(wjob[w], TRUE)
  /\ wpc' = [wpc EXCEPT ![w] = "idle"]
  /\ wjob' = [wjob EXCEPT ![w] = 0]
  /\ UNCHANGED <<nJobs, w_attempt, dst, state_jobs, state_file, history, proc,
                 pending, envLeft, crashes>>

\* the worker asks for a retry while retry_count < max_retry - 1
WorkerRetries(rec) == rec.retry_count < rec.max_retry - 1

\* _process_job, the except branch after safe_copy returned False: the FAILED
\* row, then fail_job with or without retry
ProcessJobFailed(w) ==
  /\ proc = "up"
  /\ wpc[w] = "failed"
  /\ LET j == wjob[w]
         rec == job[j]
         e == "Copy failed (safe_copy returned False)"
     IN /\ history' = Append(history, [status |-> "FAILED", filename |-> rec.name,
                                       retry_count |-> rec.retry_count + 1,
                                       error |-> e])
        /\ FailJob(j, e, WorkerRetries(rec))
  /\ wpc' = [wpc EXCEPT ![w] = "idle"]
  /\ wjob' = [wjob EXCEPT ![w] = 0]
  /\ UNCHANGED <<nJobs, w_attempt, src, dst, state_jobs, state_file, proc,
                 pending, envLeft, crashes>>

(* ------------------------- the world around it ------------------------ *)

\* a source file whose job was emitted grows by a byte, loses its last byte,
\* or is removed
SrcChange(p, to) ==
  /\ proc = "up"
  /\ envLeft > 0
  /\ SrcExists(p)
  /\ p \notin pending
  /\ to \in {src[p] + 1, src[p] - 1, -1}
  /\ src' = [src EXCEPT ![p] = to]
  /\ envLeft' = envLeft - 1
  /\ UNCHANGED <<job, nJobs, qvars, hvars, wvars, w_attempt, dst, state_jobs,
                 state_file, history, proc, pending, crashes>>

\* what the end of the process does to its memory
Dies ==
  /\ proc' = "boot"
  /\ job' = [j \in JobIds |-> NoJob]
  /\ nJobs' = 0
  /\ queue' = <<>>
  /\ jobs' = <<>>
  /\ waiting_jobs' = <<>>
  /\ active_jobs' = <<>>
  /\ completed_jobs' = <<>>
  /\ failed_jobs' = <<>>
  /\ wpc' = [w \in Threads |-> IF w \in Workers THEN "idle" ELSE "stopped"]
  /\ wjob' = [w \in Threads |-> 0]
  /\ w_attempt' = [w \in Threads |-> 0]
  /\ enq' = <<>>
  /\ deq' = <<>>
  /\ callbacks' = 0
  /\ notified' = <<>>
  /\ state_jobs' = <<>>
  /\ pending' = {}

\* the process ends abruptly: its memory is gone; the files stay
Crash ==
  /\ proc = "up"
  /\ crashes < MaxCrashes
  /\ crashes' = crashes + 1
  /\ Dies
  /\ UNCHANGED <<src, dst, state_file, history, envLeft>>

\* the process ends inside StateManager.save, called by update_progress for
\* the chunk worker w has just written: the state file is open for writing
CrashInSave(w) ==
  /\ proc = "up"
  /\ crashes < MaxCrashes
  /\ wpc[w] = "chunk"
  /\ LET j == wjob[w]
         rec == job[j]
         pos == rec.copied_bytes
         chunk == ReadChunk(rec.source_path, pos)
         copied == pos + Len(chunk)
         told == [rec EXCEPT !.copied_bytes = copied,
                             !.progress = Percent(copied, rec.size_bytes)]
     IN /\ pos < rec.size_bytes
        /\ SrcExists(rec.source_path)
        /\ chunk # <<>>
        /\ SavesOnProgress(Percent(copied, rec.size_bytes))
        /\ CanSave(GetAllJobs([job EXCEPT ![j] = told]))
        /\ dst' = DstPut(rec.dest_path,
                         WriteAt(OpenKeep(rec.dest_path), pos, chunk))
  /\ state_file' = TornFile
  /\ crashes' = crashes + 1
  /\ Dies
  /\ UNCHANGED <<src, history, envLeft>>

(* ---------------------------- the pipeline: Spec ---------------------- *)

\* a first run with no state file: the process is up, and the files that have
\* appeared in the source folders since are waiting to be found stable
\* the state after construction, but for the FileMonitor
InitPipeline ==
  /\ InitManager
  /\ job = [j \in JobIds |-> NoJob]
  /\ nJobs = 0
  /\ queue = <<>>
  /\ jobs = <<>>
  /\ waiting_jobs = <<>>
  /\ active_jobs = <<>>
  /\ completed_jobs = <<>>
  /\ failed_jobs = <<>>
  /\ wpc = [w \in Threads |-> IF w \in Workers THEN "idle" ELSE "stopped"]
  /\ wjob = [w \in Threads |-> 0]
  /\ enq = <<>>
  /\ deq = <<>>
  /\ callbacks = 0
  /\ notified = <<>>
  /\ w_attempt = [w \in Threads |-> 0]
  /\ src \in [SrcPaths -> {-1} \cup 1..MaxSize]
  /\ dst = <<>>
  /\ state_jobs = <<>>
  /\ state_file = <<>>
  /\ history = <<>>
  /\ proc = "up"
  /\ pending = {p \in SrcPaths : src[p] >= 0}
  /\ envLeft = MaxEnv
  /\ crashes = 0

Init ==
  /\ InitPipeline
  /\ InitMonitor(AllFolders, AllExtensions)
  /\ InitFaults(0)

\* the queue steps of a worker of the running process
\* run: while self.running, get_next_job; a worker already waiting in
\* queue.get when its flag was cleared still takes the job that arrives
WorkerGet(w) ==
  /\ proc = "up"
  /\ \/ /\ w_running[w] \/ w \in w_inget
        /\ QueueGet(w)
        /\ w_inget' = w_inget \ {w}
     \/ /\ GetNextJob(w)
        /\ UNCHANGED w_inget
  /\ UNCHANGED <<pvars, w_running, workers, max_parallel, dm_pc, resizes, dvars,
                 fvars>>

Next ==
  \/ Start /\ UNCHANGED <<mvars, dvars, fvars>>
  \/ \E p \in SrcPaths : Detect(p) /\ UNCHANGED <<mvars, dvars, fvars>>
  \/ \E w \in 1..MaxParallel : WorkerGet(w)
  \/ \E w \in 1..MaxParallel : ProcessJobPreflight(w) /\ UNCHANGED <<mvars, dvars, fvars>>
  \/ \E w \in 1..MaxParallel : SafeCopyPreflight(w) /\ UNCHANGED <<mvars, dvars, fvars>>
  \/ \E w \in 1..MaxParallel : CopyOpen(w) /\ UNCHANGED <<mvars, dvars, fvars>>
  \/ \E w \in 1..MaxParallel : CopyChunk(w) /\ UNCHANGED <<mvars, dvars, fvars>>
  \/ \E w \in 1..MaxParallel : ProcessJobSuccess(w) /\ UNCHANGED <<mvars, dvars, fvars>>
  \/ \E w \in 1..MaxParallel : ProcessJobDelete(w) /\ UNCHANGED <<mvars, dvars, fvars>>
  \/ \E w \in 1..MaxParallel : ProcessJobFailed(w) /\ UNCHANGED <<mvars, dvars, fvars>>
  \/ \E p \in SrcPaths, to \in -1..(MaxSize + 1) : SrcChange(p, to) /\ UNCHANGED <<mvars, dvars, fvars>>
  \/ Crash /\ UNCHANGED <<mvars, dvars, fvars>>
  \/ \E w \in 1..MaxParallel : CrashInSave(w) /\ UNCHANGED <<mvars, dvars, fvars>>

Spec == Init /\ [][Next]_vars

(* -------------------------- the pool: SpecPool ------------------------ *)

\* the same pipeline with every worker of the pool running, in a process
\* that stays up and on source files nobody else touches
NextPool ==
  \/ \E p \in SrcPaths : Detect(p) /\ UNCHANGED <<mvars, dvars, fvars>>
  \/ \E w \in Workers : WorkerGet(w)
  \/ \E w \in Workers : ProcessJobPreflight(w) /\ UNCHANGED <<mvars, dvars, fvars>>
  \/ \E w \in Workers : SafeCopyPreflight(w) /\ UNCHANGED <<mvars, dvars, fvars>>
  \/ \E w \in Workers : CopyOpen(w) /\ UNCHANGED <<mvars, dvars, fvars>>
  \/ \E w \in Workers : CopyChunk(w) /\ UNCHANGED <<mvars, dvars, fvars>>
  \/ \E w \in Workers : ProcessJobSuccess(w) /\ UNCHANGED <<mvars, dvars, fvars>>
  \/ \E w \in Workers : ProcessJobDelete(w) /\ UNCHANGED <<mvars, dvars, fvars>>
  \/ \E w \in Workers : ProcessJobFailed(w) /\ UNCHANGED <<mvars, dvars, fvars>>

SpecPool == Init /\ [][NextPool]_vars

(* ------------------------ the worker pool: SpecWorkers ---------------- *)

\* is_busy answers False for every worker
IsBusyNever(w) == FALSE

\* DownloadWorker.is_busy: current_job is set, from the call of _process_job
\* to its return
IsBusy(w) ==
  wpc[w] \in {"safe_copy", "open", "chunk", "success", "delete", "failed"}

\* the idle workers among ws that may be waiting in queue.get
MayBeInGet(ws) == {w \in ws : wpc[w] = "idle" /\ w_running[w]}

\* the threads among slots that have ended and left the list
FreeSlots(slots) ==
  {w \in slots : wpc[w] = "stopped" /\ ~InSeq(workers, w)}

\* the k smallest members of S in ascending order
RECURSIVE Lowest(_, _)
Lowest(S, k) ==
  IF k = 0 THEN <<>>
  ELSE LET m == CHOOSE x \in S : \A y \in S : x <= y
       IN <<m>> \o Lowest(S \ {m}, k - 1)

\* set_max_parallel(n) with the threads of slots to run new workers in.
\* Growing starts n - max_parallel worker threads and appends them to the
\* list; shrinking calls stop() on the workers of the list beyond position n
\* that are not busy and takes them off the list
SetMaxParallelIn(n, slots) ==
  /\ proc = "up"
  /\ dm_pc = "running"
  /\ resizes < MaxResizes
  /\ n # max_parallel
  /\ resizes' = resizes + 1
  /\ max_parallel' = n
  /\ IF n > max_parallel
     THEN /\ Cardinality(FreeSlots(slots)) >= n - max_parallel
          /\ LET started == Lowest(FreeSlots(slots), n - max_parallel)
                 fresh == {started[k] : k \in 1..Len(started)}
             IN /\ workers' = workers \o started
                /\ w_running' = [w \in Threads |->
                                   IF w \in fresh THEN TRUE ELSE w_running[w]]
                /\ wpc' = [w \in Threads |->
                             IF w \in fresh THEN "idle" ELSE wpc[w]]
                /\ UNCHANGED w_inget
     ELSE LET surplus == {workers[i] : i \in (n + 1)..Len(workers)}
              to_stop == {w \in surplus : ~IsBusy(w)}
          IN /\ w_running' = [w \in Threads |->
                                IF w \in to_stop THEN FALSE ELSE w_running[w]]
             /\ workers' = SelectSeq(workers, LAMBDA w : w \notin to_stop)
             /\ \E S \in SUBSET MayBeInGet(to_stop) : w_inget' = w_inget \cup S
             /\ UNCHANGED wpc
  /\ UNCHANGED <<job, nJobs, qvars, hvars, wjob, pvars, dm_pc>>
  /\ UNCHANGED <<dvars, fvars>>

\* set_max_parallel(n) when a new worker thread can only start after the
\* earlier thread of its worker id has ended
SetMaxParallel(n) == SetMaxParallelIn(n, Workers)

\* stop() that clears the flag of the workers that are not busy only
StopIdleOnly ==
  /\ proc = "up"
  /\ dm_pc = "running"
  /\ dm_pc' = "joining"
  /\ w_running' = [w \in Threads |->
                     IF InSeq(workers, w) /\ ~IsBusy(w) THEN FALSE
                     ELSE w_running[w]]
  /\ \E S \in SUBSET MayBeInGet({w \in Workers : InSeq(workers, w)}) :
       w_inget' = w_inget \cup S
  /\ UNCHANGED <<job, nJobs, qvars, hvars, wvars, pvars, workers, max_parallel,
                 resizes>>
  /\ UNCHANGED <<dvars, fvars>>

\* stop(), up to the joins: the manager's flag and the flag of every worker
\* of the list are cleared
Stop ==
  /\ proc = "up"
  /\ dm_pc = "running"
  /\ dm_pc' = "joining"
  /\ w_running' = [w \in Threads |->
                     IF InSeq(workers, w) THEN FALSE ELSE w_running[w]]
  /\ \E S \in SUBSET MayBeInGet({w \in Workers : InSeq(workers, w)}) :
       w_inget' = w_inget \cup S
  /\ UNCHANGED <<job, nJobs, qvars, hvars, wvars, pvars, workers, max_parallel,
                 resizes>>
  /\ UNCHANGED <<dvars, fvars>>

\* stop(), after the joins returned or timed out: _save_state
StopSave ==
  /\ proc = "up"
  /\ dm_pc = "joining"
  /\ dm_pc' = "stopped"
  /\ state_jobs' = SaveState(job, state_jobs, state_file)[1]
  /\ state_file' = SaveState(job, state_jobs, state_file)[2]
  /\ UNCHANGED <<job, nJobs, qvars, hvars, wvars, w_attempt, src, dst, history,
                 proc, pending, envLeft, crashes, w_running, w_inget, workers,
                 max_parallel, resizes>>
  /\ UNCHANGED <<dvars, fvars>>

\* run: the loop test fails and the thread ends; a worker waiting in
\* queue.get comes to the test when the wait ends with the queue empty
WorkerExit(w) ==
  /\ proc = "up"
  /\ wpc[w] = "idle"
  /\ ~w_running[w]
  /\ w \in w_inget => queue = <<>>
  /\ wpc' = [wpc EXCEPT ![w] = "stopped"]
  /\ w_inget' = w_inget \ {w}
  /\ UNCHANGED <<job, nJobs, qvars, hvars, wjob, pvars, w_running, workers,
                 max_parallel, dm_pc, resizes>>
  /\ UNCHANGED <<dvars, fvars>>

\* the steps of worker thread w
WorkerStep(w) ==
  \/ WorkerGet(w)
  \/ ProcessJobPreflight(w) /\ UNCHANGED <<mvars, dvars, fvars>>
  \/ SafeCopyPreflight(w) /\ UNCHANGED <<mvars, dvars, fvars>>
  \/ CopyOpen(w) /\ UNCHANGED <<mvars, dvars, fvars>>
  \/ CopyChunk(w) /\ UNCHANGED <<mvars, dvars, fvars>>
  \/ ProcessJobSuccess(w) /\ UNCHANGED <<mvars, dvars, fvars>>
  \/ ProcessJobDelete(w) /\ UNCHANGED <<mvars, dvars, fvars>>
  \/ ProcessJobFailed(w) /\ UNCHANGED <<mvars, dvars, fvars>>
  \/ WorkerExit(w)

NextWorkers ==
  \/ \E p \in SrcPaths : Detect(p) /\ UNCHANGED <<mvars, dvars, fvars>>
  \/ \E w \in Workers : WorkerStep(w)
  \/ \E n \in 1..Cardinality(Workers) : SetMaxParallel(n)
  \/ Stop
  \/ StopSave

\* up to two files of one name to copy while the pool is resized and stopped:
\* one byte in the first folder, MaxSize bytes in the second
InitWorkers ==
  /\ Init
  /\ src[<<1, "a">>] \in {-1, 1}
  /\ src[<<1, "b">>] = -1
  /\ src[<<2, "a">>] \in {-1, MaxSize}

SpecWorkers == InitWorkers /\ [][NextWorkers]_vars

\* every worker thread keeps being scheduled
FairSpecWorkers == SpecWorkers /\ \A w \in Workers : WF_vars(WorkerStep(w))

(* --------------------------- claims: the queue ------------------------ *)

\* the names the queue knows: an entry in jobs or in one of the four lists
KnownName(n) ==
  \/ DictHas(jobs, n)
  \/ InSeq(waiting_jobs, n) \/ InSeq(active_jobs, n)
  \/ InSeq(completed_jobs, n) \/ InSeq(failed_jobs, n)

Occurrences(n) ==
  Count(waiting_jobs, n) + Count(active_jobs, n)
    + Count(completed_jobs, n) + Count(failed_jobs, n)

\* C1: every name the queue knows is in exactly one of waiting_jobs,
\* active_jobs, completed_jobs, failed_jobs and occurs there once, after any
\* sequence of add, next, complete, fail and clear_completed, also when a job
\* is added whose name the queue already holds.
C1_NameInExactlyOneList == \A n \in Names : KnownName(n) => Occurrences(n) = 1

FailJobContract(w, retry) ==
  LET j == wjob[w]
      name == job[j].name
  IN /\ job'[j].retry_count = job[j].retry_count + 1
     /\ Count(active_jobs', name) = Count(active_jobs, name) - 1
     /\ IF retry /\ job'[j].retry_count < job[j].max_retry
        THEN /\ job'[j].status = STATUS_WAITING
             /\ queue' = Append(queue, j)
             /\ waiting_jobs' = Append(waiting_jobs, name)
             /\ failed_jobs' = failed_jobs
        ELSE /\ job'[j].status = STATUS_FAILED
             /\ failed_jobs' = Append(failed_jobs, name)
             /\ queue' = queue
             /\ waiting_jobs' = waiting_jobs

\* a failed job object is out of the queue and out of every worker's hands
FailedJobIsOut ==
  \A j \in JobIds :
    job[j].status = STATUS_FAILED =>
      /\ ~InSeq(queue, j)
      /\ \A w \in Workers : wjob[w] # j

\* C3: fail_job adds exactly one to retry_count and takes the job's entry off
\* the active list; the job goes back to the tail of the queue and of the
\* waiting list with status waiting exactly when retry is true and the new
\* retry_count is below max_retry; otherwise it is appended to the failed list
\* with status failed, and a failed job stays failed, is never put on the
\* queue again and is never handed to a worker again.
C3_FailJobRetriesOrFails ==
  /\ [][\A w \in Workers, r \in BOOLEAN :
          ClientFail(w, r) => FailJobContract(w, r)]_vars
  /\ [](FailedJobIsOut)
  /\ [][\A j \in JobIds :
          job[j].status = STATUS_FAILED => job'[j].status = STATUS_FAILED]_vars

\* C3 witness: a job with max_retry 2 was retried once and then, on its second
\* failure, was failed for good.
C3_RetriedThenFailed ==
  \E j \in JobIds :
    /\ job[j].status = STATUS_FAILED
    /\ job[j].max_retry = 2
    /\ job[j].retry_count = 2
    /\ Count(deq, j) = 2

(* -------------------------- claims: the pipeline ---------------------- *)

\* C4: in every reachable state every job has
\* 0 <= copied_bytes <= size_bytes
C4_CopiedWithinSize ==
  \A j \in 1..nJobs :
    /\ 0 <= job[j].copied_bytes
    /\ job[j].copied_bytes <= job[j].size_bytes

\* C5: a completed job has copied_bytes = size_bytes, and in the step that
\* makes a job completed the file at its dest_path exists with exactly
\* size_bytes bytes
C5_CompletedHasWholeFile ==
  /\ [](\A j \in 1..nJobs :
          job[j].status = STATUS_COMPLETED =>
            job[j].copied_bytes = job[j].size_bytes)
  /\ [][\A w \in Workers :
          (wpc[w] = "success" /\ wpc'[w] = "delete") =>
            /\ job'[wjob[w]].status = STATUS_COMPLETED
            /\ job'[wjob[w]].dest_path \in DOMAIN dst'
            /\ Len(dst'[job'[wjob[w]].dest_path]) = job'[wjob[w]].size_bytes]_vars

C7_ResumedCopyEqualsSource ==
  \A w \in Workers :
    (wpc[w] = "delete" /\ crashes > 0 /\ envLeft = MaxEnv) =>
      dst[job[wjob[w]].dest_path] = SrcContent(job[wjob[w]].source_path)

\* the same for a copy in a process that never crashed
UninterruptedCopyEqualsSource ==
  \A w \in Workers :
    (wpc[w] = "delete" /\ crashes = 0 /\ envLeft = MaxEnv) =>
      dst[job[wjob[w]].dest_path] = SrcContent(job[wjob[w]].source_path)

\* C8: the start of a process puts every job the state file stores as waiting
\* or downloading on the queue exactly once, as the only job object of its
\* name, with status waiting and the stored copied_bytes and last_checkpoint;
\* a job stored as completed or failed gets no job object and no queue entry
C8_ResumeEnqueuesStoredOnce ==
  [][(proc = "boot" /\ proc' = "up") =>
       /\ \A i \in 1..Len(state_file) :
            LET d == state_file[i].v
                mine == {j \in 1..nJobs' : job'[j].name = d.name}
            IN IF d.status \in {STATUS_WAITING, STATUS_DOWNLOADING}
               THEN /\ Cardinality(mine) = 1
                    /\ \A j \in mine :
                         /\ Count(queue', j) = 1
                         /\ job'[j].status = STATUS_WAITING
                         /\ job'[j].copied_bytes = d.copied_bytes
                         /\ job'[j].last_checkpoint = d.last_checkpoint
               ELSE mine = {}
       /\ Len(queue') =
            Cardinality({i \in 1..Len(state_file) :
              state_file[i].v.status \in {STATUS_WAITING, STATUS_DOWNLOADING}})]_vars

\* C8 witness: right after a restart a job stored in mid-copy is back on the
\* queue with its copied bytes, and a job stored as failed is not
C8_ResumedPartialAndSkippedFailed ==
  /\ proc = "up" /\ crashes > 0 /\ deq = <<>>
  /\ \E j \in 1..nJobs :
       /\ Count(queue, j) = 1
       /\ job[j].status = STATUS_WAITING
       /\ job[j].copied_bytes > 0
       /\ job[j].last_checkpoint = 0
  /\ \E i \in 1..Len(state_file) :
       /\ state_file[i].v.status = STATUS_FAILED
       /\ \A j \in 1..nJobs : job[j].name # state_file[i].v.name

\* C9: a step of a running process that raises a job's last_checkpoint
\* leaves the state file with that job under its name, recorded with the new
\* last_checkpoint and the copied_bytes the job has after the step
C9_CheckpointIsOnDisk ==
  [][\A j \in 1..nJobs :
       (proc = "up" /\ proc' = "up"
        /\ job'[j].last_checkpoint > job[j].last_checkpoint) =>
         \E i \in 1..Len(state_file') :
           /\ state_file'[i].k = job'[j].name
           /\ state_file'[i].v.last_checkpoint = job'[j].last_checkpoint
           /\ state_file'[i].v.copied_bytes = job'[j].copied_bytes]_vars

\* C10: when a job is completed or failed and the queue has recorded it, and
\* no other job of its name is still in progress, neither the in-memory
\* state document nor the state file has an entry under its name
C10_TerminalJobNotInStore ==
  \A j \in 1..nJobs :
    (/\ job[j].status \in {STATUS_COMPLETED, STATUS_FAILED}
     /\ InSeq(completed_jobs \o failed_jobs, job[j].name)
     /\ \A k \in 1..nJobs :
          job[k].name = job[j].name =>
            job[k].status \in {STATUS_COMPLETED, STATUS_FAILED}) =>
      /\ ~DictHas(state_jobs, job[j].name)
      /\ ~DictHas(state_file, job[j].name)

\* C11: when the process dies, the state file it leaves is a complete
\* document, and every name the file held before the step is still in it
C11_StateFileSurvivesCrash ==
  [][(proc = "up" /\ proc' = "boot") =>
       /\ state_file' # TornFile
       /\ \A i \in 1..Len(state_file) :
            DictHas(LoadState(state_file'), state_file[i].k)]_vars

\* C12: a step of the running process appends to the history only one row,
\* for a job that the step makes completed (a SUCCESS row) or failed (a
\* FAILED row); and every step that makes a job completed or failed appends
\* that row
C12_OneRowPerTerminalOutcome ==
  /\ [][(proc = "up" /\ proc' = "up" /\ history' # history) =>
          /\ Len(history') = Len(history) + 1
          /\ \E j \in 1..nJobs :
               /\ job[j].name = history'[Len(history')].filename
               /\ job[j].status \notin {STATUS_COMPLETED, STATUS_FAILED}
               /\ \/ /\ history'[Len(history')].status = "SUCCESS"
                     /\ job'[j].status = STATUS_COMPLETED
                  \/ /\ history'[Len(history')].status = "FAILED"
                     /\ job'[j].status = STATUS_FAILED]_vars
  /\ [][\A j \in 1..nJobs :
          (/\ proc = "up" /\ proc' = "up"
           /\ job[j].status \notin {STATUS_COMPLETED, STATUS_FAILED}
           /\ job'[j].status \in {STATUS_COMPLETED, STATUS_FAILED}) =>
            /\ Len(history') = Len(history) + 1
            /\ history'[Len(history')].filename = job[j].name
            /\ history'[Len(history')].status =
                 IF job'[j].status = STATUS_COMPLETED THEN "SUCCESS"
                 ELSE "FAILED"]_vars

(* ----------------------- shutdown: SpecStop --------------------------- *)

\* one run of the application up to the return of stop(): files of two
\* different names arrive and change while a worker copies
NextStop ==
  \/ \E p \in SrcPaths : Detect(p) /\ UNCHANGED <<mvars, dvars, fvars>>
  \/ \E w \in 1..MaxParallel : WorkerStep(w)
  \/ \E p \in SrcPaths, to \in -1..(MaxSize + 1) : SrcChange(p, to) /\ UNCHANGED <<mvars, dvars, fvars>>
  \/ Stop
  \/ StopSave

InitStop ==
  /\ Init
  /\ src[<<2, "a">>] = -1

SpecStop == InitStop /\ [][NextStop]_vars

(* ---------------------- resizing the pool: SpecResize ---------------- *)

\* the pool is resized while its workers copy; a new worker thread starts
\* whether or not earlier threads are still alive
NextResize ==
  \/ \E p \in SrcPaths : Detect(p) /\ UNCHANGED <<mvars, dvars, fvars>>
  \/ \E w \in Threads : WorkerStep(w)
  \/ \E n \in 1..Cardinality(Workers) : SetMaxParallelIn(n, Threads)
  \/ \E p \in SrcPaths : SrcChange(p, -1) /\ UNCHANGED <<mvars, dvars, fvars>>

InitResize ==
  /\ Init
  /\ src[<<1, "b">>] = -1
  /\ src[<<2, "a">>] = -1

SpecResize == InitResize /\ [][NextResize]_vars

(* ------------------ the state store is shared: SpecStore -------------- *)

\* save(jobs) called by stop(), the loop over the job objects: to_dict of
\* each builds the local jobs_dict; a to_dict that raises ends the save
StopSaveBuild ==
  /\ proc = "up"
  /\ dm_pc = "joining"
  /\ IF CanSave(GetAllJobs(job))
     THEN /\ dm_pc' = "saving"
          /\ sv_jobs' = SavedJobs(GetAllJobs(job))
     ELSE /\ dm_pc' = "stopped"
          /\ UNCHANGED sv_jobs
  /\ UNCHANGED <<job, nJobs, qvars, hvars, wvars, pvars, w_running, w_inget,
                 workers, max_parallel, resizes, dvars, fault_left, w_delays, called>>

\* save(jobs) called by stop(), after the loop: state['jobs'] = jobs_dict
\* and the document is written
StopSaveWrite ==
  /\ proc = "up"
  /\ dm_pc = "saving"
  /\ dm_pc' = "stopped"
  /\ state_jobs' = sv_jobs
  /\ state_file' = sv_jobs
  /\ sv_jobs' = <<>>
  /\ UNCHANGED <<job, nJobs, qvars, hvars, wvars, w_attempt, src, dst, history,
                 proc, pending, envLeft, crashes, w_running, w_inget, workers,
                 max_parallel, resizes, dvars, fault_left, w_delays, called>>

\* one run of the application up to the return of stop(); the worker that
\* is still copying when the join times out goes on while stop() saves
NextStore ==
  \/ \E p \in SrcPaths : Detect(p) /\ UNCHANGED <<mvars, dvars, fvars>>
  \/ \E w \in 1..MaxParallel : WorkerStep(w)
  \/ \E p \in SrcPaths, to \in -1..(MaxSize + 1) : SrcChange(p, to) /\ UNCHANGED <<mvars, dvars, fvars>>
  \/ Stop
  \/ StopSaveBuild
  \/ StopSaveWrite

SpecStore == InitStop /\ [][NextStore]_vars

(* ---------------------- errors of the copy: SpecCopy ------------------ *)

\* delay = base_delay * (2 ** attempt)
Delay(attempt) == BASE_DELAY * (2 ^ attempt)

\* f"Permission denied after {max_retries} attempts"
PermissionDeniedAfter(n) ==
  IF n = 5 THEN "Permission denied after 5 attempts"
  ELSE "Permission denied after n attempts"

\* job.last_error after the last attempt ended with an exception of the kind
LastErrorOf(kind) ==
  IF kind = "permission" THEN PermissionDeniedAfter(COPY_MAX_RETRIES)
  ELSE IF kind = "io" THEN "IO Error"
  ELSE "unknown error"

\* the attempt loop goes on after PermissionError and IOError
RetriesInCopy(kind) == kind \in {"permission", "io"}

\* copy_with_progress, an open, read or write raises: PermissionError and
\* IOError sleep and start the next attempt, or end the copy after the last
\* attempt; any other exception ends the copy at once. With the source
\* missing the open of the source raises FileNotFoundError before any of
\* these
CopyFault(w, kind) ==
  /\ proc = "up"
  /\ wpc[w] \in {"open", "chunk"}
  /\ SrcExists(job[wjob[w]].source_path)
  /\ wpc[w] = "chunk" => job[wjob[w]].copied_bytes < job[wjob[w]].size_bytes
  /\ fault_left > 0
  /\ fault_left' = fault_left - 1
  /\ IF RetriesInCopy(kind) /\ w_attempt[w] < COPY_MAX_RETRIES - 1
     THEN /\ w_delays' = [w_delays EXCEPT ![w] =
                            Append(IF w_attempt[w] = 0 THEN <<>> ELSE @,
                                   Delay(w_attempt[w]))]
          /\ w_attempt' = [w_attempt EXCEPT ![w] = @ + 1]
          /\ wpc' = [wpc EXCEPT ![w] = "open"]
          /\ UNCHANGED job
     ELSE /\ job' = [job EXCEPT ![wjob[w]].last_error = LastErrorOf(kind)]
          /\ w_delays' = [w_delays EXCEPT ![w] =
                            IF w_attempt[w] = 0 THEN <<>> ELSE @]
          /\ wpc' = [wpc EXCEPT ![w] = "failed"]
          /\ UNCHANGED w_attempt
  /\ UNCHANGED <<nJobs, qvars, hvars, wjob, src, dst, state_jobs, state_file,
                 history, proc, pending, envLeft, crashes, mvars, dvars, sv_jobs,
                 called>>

NextCopy ==
  \/ \E p \in SrcPaths : Detect(p) /\ UNCHANGED <<mvars, dvars, fvars>>
  \/ \E w \in 1..MaxParallel : WorkerGet(w)
  \/ \E w \in 1..MaxParallel : ProcessJobPreflight(w) /\ UNCHANGED <<mvars, dvars, fvars>>
  \/ \E w \in 1..MaxParallel : SafeCopyPreflight(w) /\ UNCHANGED <<mvars, dvars, fvars>>
  \/ \E w \in 1..MaxParallel : CopyOpen(w) /\ UNCHANGED <<mvars, dvars, fvars>>
  \/ \E w \in 1..MaxParallel : CopyChunk(w) /\ UNCHANGED <<mvars, dvars, fvars>>
  \/ \E w \in 1..MaxParallel : ProcessJobSuccess(w) /\ UNCHANGED <<mvars, dvars, fvars>>
  \/ \E w \in 1..MaxParallel : ProcessJobDelete(w) /\ UNCHANGED <<mvars, dvars, fvars>>
  \/ \E w \in 1..MaxParallel : ProcessJobFailed(w) /\ UNCHANGED <<mvars, dvars, fvars>>
  \/ \E w \in 1..MaxParallel, kind \in FaultKinds : CopyFault(w, kind)
  \/ \E p \in SrcPaths : SrcChange(p, -1) /\ UNCHANGED <<mvars, dvars, fvars>>

\* one worker copies one file while opens, reads and writes may raise
\* and source files may be removed
InitCopy ==
  /\ InitPipeline
  /\ InitMonitor(AllFolders, AllExtensions)
  /\ InitFaults(MaxFaults)
  /\ src[<<1, "b">>] = -1
  /\ src[<<2, "a">>] = -1

SpecCopy == InitCopy /\ [][NextCopy]_vars

(* ---------------------- the detector: SpecMonitor --------------------- *)

\* is_video_file
IsVideoFile(n, exts) == ExtOf(n) \in exts

\* the names _scan_folder collects for folder f: the files whose extension is
\* in the list
Listing(f, exts) ==
  {n \in Names : <<f, n>> \in SrcPaths /\ src[<<f, n>>] >= 0
                 /\ IsVideoFile(n, exts)}

\* the paths of folder f, in the order of os.listdir
PathsOf(f) == SelectSeq(<<<<f, "a">>, <<f, "b">>>>, LAMBDA p : p \in SrcPaths)

\* the paths the scans of one pass look at, folder by folder
RECURSIVE ScanOrder(_)
ScanOrder(fl) ==
  IF fl = <<>> THEN <<>> ELSE PathsOf(Head(fl)) \o ScanOrder(Tail(fl))

\* _scan_folder: the file is in the listing and not in seen_files
IsNew(p) ==
  /\ p[2] \in Listing(p[1], extensions)
  /\ p[2] \notin seen_files[p[1]]

\* stable_files[path] = {first_seen: now, last_size: size}
StablePut(st, path, size) ==
  LET e == [path |-> path, last_size |-> size, age |-> 0]
  IN IF \E i \in 1..Len(st) : st[i].path = path
     THEN [i \in 1..Len(st) |-> IF st[i].path = path THEN e ELSE st[i]]
     ELSE Append(st, e)

RECURSIVE StablePutAll(_, _)
StablePutAll(st, ps) ==
  IF ps = <<>> THEN st
  ELSE StablePutAll(StablePut(st, Head(ps), src[Head(ps)]), Tail(ps))

\* del stable_files[path] of the entry at i
StableDel(st, i) == [k \in 1..(Len(st) - 1) |-> IF k < i THEN st[k] ELSE st[k + 1]]

\* FileMonitor.start: the initial scan records the listed files as seen
MonitorStart ==
  /\ proc = "up"
  /\ mon_pc = "off"
  /\ seen_files' = [f \in Folders |->
                      IF InSeq(source_folders, f)
                      THEN Listing(f, extensions) ELSE seen_files[f]]
  /\ old_start' = {p \in SrcPaths : src[p] >= 0 /\ InSeq(source_folders, p[1])}
  /\ mon_pc' = "scan"
  /\ UNCHANGED <<job, nJobs, qvars, wvars, hvars, pvars, mvars, fvars, source_folders,
                 extensions, stable_files, mon_i, fs_left, err_left, emits,
                 old_added>>

\* _monitor_loop: _scan_folder of every folder of the list; a new file whose
\* size cannot be read gets no entry, and is recorded as seen like the others
MonitorScan ==
  /\ proc = "up"
  /\ mon_pc = "scan"
  /\ LET new == SelectSeq(ScanOrder(source_folders), IsNew)
     IN \E bad \in SUBSET {new[i] : i \in 1..Len(new)} :
          /\ Cardinality(bad) <= err_left
          /\ err_left' = err_left - Cardinality(bad)
          /\ stable_files' =
               StablePutAll(stable_files, SelectSeq(new, LAMBDA p : p \notin bad))
  /\ seen_files' = [f \in Folders |->
                      IF InSeq(source_folders, f)
                      THEN Listing(f, extensions) ELSE seen_files[f]]
  /\ mon_pc' = "check"
  /\ mon_i' = 1
  /\ UNCHANGED <<job, nJobs, qvars, wvars, hvars, pvars, mvars, fvars, source_folders,
                 extensions, fs_left, emits, old_start, old_added>>

\* the test that emits whatever the size was before
IsStableAnySize(e, size) == e.age >= 1

\* current_size == info['last_size'] and time_since_first >= 5: first seen in
\* an earlier pass, a polling interval of 5 s ago or more
IsStable(e, size) == size = e.last_size /\ e.age >= 1

\* _check_stable_files, one entry of the loop: a file that is gone or whose
\* size cannot be read leaves the table; a file of unchanged size first seen
\* in an earlier pass (at least 5 s ago) becomes a job and leaves the table;
\* a changed size is recorded
MonitorCheck ==
  /\ proc = "up"
  /\ mon_pc = "check"
  /\ mon_i <= Len(stable_files)
  /\ LET e == stable_files[mon_i]
         size == src[e.path]
     IN \/ /\ size < 0
           /\ stable_files' = StableDel(stable_files, mon_i)
           /\ UNCHANGED <<job, nJobs, qvars, hvars, mon_i, err_left, emits>>
        \/ /\ size >= 0
           /\ err_left > 0
           /\ err_left' = err_left - 1
           /\ stable_files' = StableDel(stable_files, mon_i)
           /\ UNCHANGED <<job, nJobs, qvars, hvars, mon_i, emits>>
        \/ /\ size >= 0
           /\ IsStable(e, size)
           /\ nJobs < MaxJobs
           /\ nJobs' = nJobs + 1
           /\ AddJob(nJobs + 1, NewFileJob(e.path[2], e.path, NoPath, size,
                                           DEFAULT_JOB_MAX_RETRY))
           /\ emits' = [emits EXCEPT ![e.path] = @ + 1]
           /\ stable_files' = StableDel(stable_files, mon_i)
           /\ UNCHANGED <<mon_i, err_left>>
        \/ /\ size >= 0
           /\ ~IsStable(e, size)
           /\ size # e.last_size
           /\ stable_files' = [stable_files EXCEPT ![mon_i].last_size = size]
           /\ mon_i' = mon_i + 1
           /\ UNCHANGED <<job, nJobs, qvars, hvars, err_left, emits>>
        \/ /\ size >= 0
           /\ ~IsStable(e, size)
           /\ size = e.last_size
           /\ mon_i' = mon_i + 1
           /\ UNCHANGED <<job, nJobs, qvars, hvars, stable_files, err_left,
                          emits>>
  /\ UNCHANGED <<wvars, pvars, mvars, fvars, source_folders, extensions, seen_files,
                 mon_pc, fs_left, old_start, old_added>>

\* _monitor_loop: the sleep of polling_interval seconds after the checks
MonitorSleep ==
  /\ proc = "up"
  /\ mon_pc = "check"
  /\ mon_i > Len(stable_files)
  /\ stable_files' = [i \in 1..Len(stable_files) |->
                        [stable_files[i] EXCEPT !.age = 1]]
  /\ mon_pc' = "scan"
  /\ mon_i' = 1
  /\ UNCHANGED <<job, nJobs, qvars, wvars, hvars, pvars, mvars, fvars, source_folders,
                 extensions, seen_files, fs_left, err_left, emits, old_start,
                 old_added>>

\* the steps of the monitor thread
MonitorStep == MonitorStart \/ MonitorScan \/ MonitorCheck \/ MonitorSleep

\* _on_settings_changed: the monitor gets the folder list and the extension
\* list of the settings (max_download unchanged)
SettingsChanged(fl, ex) ==
  /\ proc = "up"
  /\ mon_pc # "off"
  /\ <<fl, ex>> # <<source_folders, extensions>>
  /\ source_folders' = fl
  /\ extensions' = ex
  /\ old_added' = old_added \cup
                    {p \in SrcPaths : /\ src[p] >= 0
                                      /\ InSeq(fl, p[1])
                                      /\ ~InSeq(source_folders, p[1])}
  /\ UNCHANGED <<job, nJobs, qvars, wvars, hvars, pvars, mvars, fvars, seen_files,
                 stable_files, mon_pc, mon_i, fs_left, err_left, emits,
                 old_start>>

\* a file arrives in a source folder, changes its size, or is removed
FsChange(p, to) ==
  /\ proc = "up"
  /\ fs_left > 0
  /\ to # src[p]
  /\ src' = [src EXCEPT ![p] = to]
  /\ fs_left' = fs_left - 1
  /\ emits' = IF src[p] < 0 THEN [emits EXCEPT ![p] = 0] ELSE emits
  /\ old_start' = IF to < 0 THEN old_start \ {p} ELSE old_start
  /\ old_added' = IF to < 0 THEN old_added \ {p} ELSE old_added
  /\ UNCHANGED <<job, nJobs, qvars, wvars, hvars, w_attempt, dst, state_jobs,
                 state_file, history, proc, pending, envLeft, crashes, mvars, fvars,
                 source_folders, extensions, seen_files, stable_files, mon_pc,
                 mon_i, err_left>>

NextMonitor ==
  \/ MonitorStart
  \/ MonitorScan
  \/ MonitorCheck
  \/ MonitorSleep
  \/ \E fl \in FolderLists, ex \in ExtensionLists : SettingsChanged(fl, ex)
  \/ \E p \in SrcPaths, to \in {-1} \cup 1..MaxSize : FsChange(p, to)

\* the application starts with one of the configurations, any files in the
\* source folders, and nothing to resume
InitModelMonitor ==
  /\ InitManager
  /\ job = [j \in JobIds |-> NoJob]
  /\ nJobs = 0
  /\ queue = <<>> /\ jobs = <<>> /\ waiting_jobs = <<>> /\ active_jobs = <<>>
  /\ completed_jobs = <<>> /\ failed_jobs = <<>>
  /\ wpc = [w \in Threads |-> IF w \in Workers THEN "idle" ELSE "stopped"]
  /\ wjob = [w \in Threads |-> 0]
  /\ enq = <<>> /\ deq = <<>>
  /\ callbacks = 0 /\ notified = <<>>
  /\ w_attempt = [w \in Threads |-> 0]
  /\ src \in [SrcPaths -> {-1, 1}]
  /\ dst = <<>> /\ state_jobs = <<>> /\ state_file = <<>> /\ history = <<>>
  /\ proc = "up"
  /\ pending = {}
  /\ envLeft = 0
  /\ crashes = 0
  /\ \E fl \in FolderLists, ex \in ExtensionLists :
       /\ source_folders = fl
       /\ extensions = ex
  /\ seen_files = [f \in Folders |-> {}]
  /\ stable_files = <<>>
  /\ mon_pc = "off"
  /\ mon_i = 1
  /\ fs_left = MaxFsSteps
  /\ err_left = MaxSizeErrors
  /\ emits = [p \in SrcPaths |-> 0]
  /\ old_start = {}
  /\ old_added = {}
  /\ InitFaults(0)

SpecMonitor == InitModelMonitor /\ [][NextMonitor]_vars

\* the monitor thread keeps being scheduled
FairSpecMonitor == SpecMonitor /\ WF_vars(MonitorStep)

(* -------------------------- claims: the worker pool ------------------- *)

\* the worker threads that are in their loop with their flag set
RunningWorkers == {w \in Workers : wpc[w] # "stopped" /\ w_running[w]}

\* C13: a shrinking set_max_parallel clears the flag only of workers beyond
\* the new size that are outside _process_job, leaves the position and the job of every worker as they are, and
\* a worker gives up a job it holds only through complete_job or fail_job:
\* the job is then completed, failed, or waiting on the queue again
C13_ShrinkStopsOnlyIdle ==
  /\ [][(max_parallel' < max_parallel) =>
          /\ \A w \in Workers :
               (w_running[w] /\ ~w_running'[w]) =>
                 /\ wpc[w] \in {"idle", "got", "process", "stopped"}
                 /\ \E i \in (max_parallel' + 1)..Len(workers) : workers[i] = w
          /\ wpc' = wpc /\ wjob' = wjob /\ job' = job /\ queue' = queue]_vars
  /\ [][\A w \in Workers :
          (wjob[w] # 0 /\ wjob'[w] = 0) =>
            \/ /\ job'[wjob[w]].status = STATUS_COMPLETED
               /\ InSeq(completed_jobs', job[wjob[w]].name)
            \/ /\ job'[wjob[w]].status = STATUS_FAILED
               /\ InSeq(failed_jobs', job[wjob[w]].name)
            \/ /\ job'[wjob[w]].status = STATUS_WAITING
               /\ InSeq(queue', wjob[w])]_vars

\* C13 witness: the pool was shrunk while a surplus worker was busy; that
\* worker is still in the pool with its flag set, and every job has been
\* completed
C13_BusyWorkerFinishedAfterShrink ==
  /\ resizes = 1
  /\ Len(workers) > max_parallel
  /\ \A i \in (max_parallel + 1)..Len(workers) :
       w_running[workers[i]] /\ wpc[workers[i]] = "idle"
  /\ completed_jobs # <<>>
  /\ failed_jobs = <<>> /\ queue = <<>>
  /\ \A w \in Workers : wjob[w] = 0

\* C14: whenever more workers are running than max_parallel allows, the
\* number of running workers eventually equals max_parallel (or the manager
\* is stopped)
C14_PoolReachesTarget ==
  (dm_pc = "running" /\ Cardinality(RunningWorkers) > max_parallel)
    ~> (dm_pc # "running" \/ Cardinality(RunningWorkers) = max_parallel)

\* C15: once stop() has cleared the flags every worker thread ends; a thread
\* ends only from the loop test, holding no job; and after stop() a thread
\* that has ended stays ended and the worker that ends takes nothing from the
\* queue in that step
C15_StopEndsEveryWorker ==
  /\ (dm_pc # "running") ~> (\A w \in Workers : wpc[w] = "stopped")
  /\ [][\A w \in Workers :
          (wpc[w] # "stopped" /\ wpc'[w] = "stopped") =>
            /\ wpc[w] = "idle" /\ wjob[w] = 0 /\ ~w_running[w]
            /\ queue' = queue]_vars
  /\ [][\A w \in Workers :
          (dm_pc # "running" /\ wpc[w] = "stopped") =>
            /\ wpc'[w] = "stopped"
            /\ wjob'[w] = 0]_vars

\* C15 witness: stop() has cleared the flags while one worker is in the
\* middle of a copy and another worker thread has already ended
C15_StoppedWhileCopying ==
  /\ dm_pc # "running"
  /\ \E w \in Workers :
       /\ wpc[w] = "chunk" /\ ~w_running[w]
       /\ \E v \in Workers : v # w /\ wpc[v] = "stopped"

\* C16: the save at the end of stop() leaves in the state file every job
\* that is waiting or downloading, with its current copied_bytes and
\* last_checkpoint
C16_StopSavesUnfinishedJobs ==
  [][(dm_pc = "joining" /\ dm_pc' = "stopped") =>
       \A j \in 1..nJobs :
         job[j].status \in {STATUS_WAITING, STATUS_DOWNLOADING} =>
           /\ DictHas(state_file', job[j].name)
           /\ DictGet(state_file', job[j].name).status = job[j].status
           /\ DictGet(state_file', job[j].name).copied_bytes
                = job[j].copied_bytes
           /\ DictGet(state_file', job[j].name).last_checkpoint
                = job[j].last_checkpoint]_vars

(* -------------------------- claims: the detector ---------------------- *)

\* the path has an entry in the stabilization table
InTable(st, p) == \E i \in 1..Len(st) : st[i].path = p

\* the monitor scans the folder of p and the extension of p is in its list
Watched(p) == InSeq(source_folders, p[1]) /\ IsVideoFile(p[2], extensions)

\* C17: a file that has been in a configured source folder ever since the
\* detector started gets no entry in the stabilization table and no job
C17_NoJobForFilePresentAtStart ==
  [][\A p \in SrcPaths :
       (p \in old_start /\ p \in old_start') =>
         /\ emits'[p] <= emits[p]
         /\ InTable(stable_files', p) => InTable(stable_files, p)]_vars

\* C18: a file that has been in a source folder ever since the folder was
\* added to the running detector gets no entry in the stabilization table
\* and no job
C18_NoJobForFilePresentWhenFolderAdded ==
  [][\A p \in SrcPaths :
       (p \in old_added /\ p \in old_added') =>
         /\ emits'[p] <= emits[p]
         /\ InTable(stable_files', p) => InTable(stable_files, p)]_vars

\* C19: a watched file that arrived after the detector started (and after its
\* folder was added) gets at most one job while it stays, and gets a job
\* unless it is removed, stops being watched, or the model has no job left
C19_StableFileEmittedOnce ==
  /\ [](\A p \in SrcPaths : emits[p] <= 1)
  /\ \A p \in SrcPaths :
       (/\ mon_pc # "off" /\ src[p] >= 0 /\ Watched(p)
        /\ p \notin old_start /\ p \notin old_added
        /\ emits[p] = 0)
         ~> (\/ emits[p] >= 1
             \/ src[p] < 0
             \/ ~Watched(p)
             \/ nJobs = MaxJobs)

(* -------------------------- claims: collisions ------------------------ *)

\* the job has its final destination path: safe_copy has chosen it
HasDestination(j) ==
  \/ job[j].status = STATUS_COMPLETED
  \/ \E w \in Workers :
       wjob[w] = j /\ wpc[w] \in {"open", "chunk", "success", "delete"}

\* C20: two jobs of different source files that are being copied or have been
\* copied have different destination paths, so neither writes into the file
\* of the other
C20_DistinctDestinations ==
  \A i, j \in 1..nJobs :
    (/\ i # j
     /\ job[i].source_path # job[j].source_path
     /\ HasDestination(i) /\ HasDestination(j))
      => job[i].dest_path # job[j].dest_path

(* -------------------------- claims: the copy -------------------------- *)

\* C21: safe_copy records as dest_path a path at which no file exists: the
\* plain path when it is free, else the path with the smallest number n >= 1
\* whose file does not exist; the copy keeps that path and opens and writes
\* that file only, so no file that was there before the attempt is written
C21_ExistingDestinationNotOpened ==
  /\ [][\A w \in Workers :
          (wpc[w] = "safe_copy" /\ wpc'[w] = "open") =>
            LET b == job[wjob[w]].dest_path
                d == job'[wjob[w]].dest_path
            IN /\ d \notin DOMAIN dst
               /\ b \notin DOMAIN dst => d = b
               /\ b \in DOMAIN dst =>
                    \E n \in 1..(Cardinality(DOMAIN dst) + 1) :
                      /\ d = Append(b, n)
                      /\ \A m \in 1..(n - 1) : Append(b, m) \in DOMAIN dst]_vars
  /\ [][\A w \in Workers :
          (wpc[w] \in {"open", "chunk"} /\ wjob'[w] = wjob[w]) =>
            /\ job'[wjob[w]].dest_path = job[wjob[w]].dest_path
            /\ \A p \in DOMAIN dst :
                 (wpc'[w] # wpc[w] \/ job'[wjob[w]] # job[wjob[w]]) =>
                   (p # job[wjob[w]].dest_path => dst'[p] = dst[p])]_vars

\* C21 witness: a completed job's file has the plain name and a later job of
\* the same name is being written to the name with the number 1
C21_SecondFileNumbered ==
  \E i, j \in 1..nJobs :
    /\ i # j
    /\ job[i].status = STATUS_COMPLETED /\ job[i].dest_path = <<job[i].name>>
    /\ job[j].name = job[i].name
    /\ job[j].dest_path = <<job[j].name, 1>>
    /\ job[j].dest_path \in DOMAIN dst
    /\ job[j].retry_count = 0

\* C22: when the copy ended on an unknown error, the worker writes the
\* FAILED row and makes the job failed for good: the job is not put back on
\* the queue
C22_UnknownErrorFailsForGood ==
  [][\A w \in Workers :
       (/\ wpc[w] = "failed" /\ wpc'[w] = "idle"
        /\ job[wjob[w]].last_error = LastErrorOf("unknown")) =>
         /\ Len(history') = Len(history) + 1
         /\ history'[Len(history')].status = "FAILED"
         /\ job'[wjob[w]].status = STATUS_FAILED
         /\ InSeq(failed_jobs', job[wjob[w]].name)
         /\ ~InSeq(queue', wjob[w])]_vars

\* C23: the operations of the state store exclude each other: while the
\* save of the pool is between building its document and writing it, no
\* update_job of a worker changes the store
C23_StoreOperationsExclusive ==
  [][(dm_pc = "saving" /\ dm_pc' = "saving") => state_jobs' = state_jobs]_vars

\* C24: an open of the destination by a job with copied_bytes > 0 does not
\* truncate: after the open the file is at least copied_bytes long and its
\* first copied_bytes bytes are the ones it held before
C24_OpenKeepsCopiedBytes ==
  [][\A w \in Workers :
       (/\ wpc[w] = "open" /\ wpc'[w] = "chunk"
        /\ job[wjob[w]].copied_bytes > 0) =>
         LET p == job[wjob[w]].dest_path
             n == job[wjob[w]].copied_bytes
         IN /\ p \in DOMAIN dst /\ p \in DOMAIN dst'
            /\ Len(dst'[p]) >= n
            /\ Len(dst[p]) >= n
            /\ \A i \in 1..n : dst'[p][i] = dst[p][i]]_vars

\* the workers of the pool's list whose running flag is set
HeldRunning == {i \in 1..Len(workers) : w_running[workers[i]]}

\* C25: the pool never holds more running workers than the largest
\* max_parallel set so far (the value start() ran with: no later call sets a
\* larger one), and after a grow to n the pool holds exactly n workers
C25_PoolSizeBounded ==
  /\ [](Cardinality(HeldRunning) <= Cardinality(Workers))
  /\ [][max_parallel' > max_parallel => Len(workers') = max_parallel']_vars

C27_BackoffSchedule ==
  /\ [][\A w \in Workers :
          (/\ wpc[w] \in {"open", "chunk"} /\ wpc'[w] = "failed"
           /\ job'[wjob[w]].last_error \in
                {LastErrorOf("permission"), LastErrorOf("io")}
           /\ fault_left' < fault_left) =>
            /\ w_attempt[w] = COPY_MAX_RETRIES - 1
            /\ w_delays'[w] = <<1, 2, 4, 8, 16>>
            /\ job'[wjob[w]].last_error # LastErrorOf("permission") =>
                 job'[wjob[w]].last_error = LastErrorOf("io")]_vars
  /\ [][\A w \in Workers :
          (/\ wpc[w] = "open" /\ wpc'[w] = "failed"
           /\ ~SrcExists(job[wjob[w]].source_path)
           /\ fault_left' = fault_left) =>
            /\ job'[wjob[w]].last_error = "Source file not found"
            /\ w_attempt'[w] = w_attempt[w]
            /\ w_delays'[w] = w_delays[w]]_vars

\* C28: retry_count of a job changes only in a step in which the worker
\* that holds it calls fail_job (after a failed pre-flight or a failed copy),
\* and every such step adds exactly one; the attempts inside the copy leave
\* it as it is
C28_RetryCountOnlyInFailJob ==
  /\ [][\A j \in JobIds :
          job'[j].retry_count # job[j].retry_count =>
            /\ job'[j].retry_count = job[j].retry_count + 1
            /\ job'[j].status \in {STATUS_WAITING, STATUS_FAILED}
            /\ \E w \in Workers :
                 /\ wjob[w] = j
                 /\ wpc[w] \in {"process", "failed"} /\ wpc'[w] = "idle"]_vars
  /\ [][\A w \in Workers :
          (wpc[w] \in {"process", "failed"} /\ wpc'[w] = "idle") =>
            job'[wjob[w]].retry_count = job[wjob[w]].retry_count + 1]_vars

\* a copy that was retried inside copy_with_progress has succeeded, for a job
\* that had failed once before: retry_count is still 1
C28_SucceededAfterBackoff ==
  \E w \in Workers :
    /\ wpc[w] = "success"
    /\ w_attempt[w] >= 1
    /\ w_delays[w] # <<>>
    /\ job[wjob[w]].retry_count = 1

(* --------------------------- claims: the observers -------------------- *)

\* the one call a single registered callback gets
OneEvent(event, name) == <<[event |-> event, name |-> name]>>

\* C29: with one callback registered, every add, next, complete and fail
\* calls it exactly once: 'added' on add, 'started' on next, 'completed' or
\* 'failed' on complete, 'retrying' when fail puts the job back on the queue
\* and 'failed' when fail makes it failed for good
C29_OneEventPerOperation ==
  /\ [][nJobs' = nJobs + 1 =>
          notified' = OneEvent("added", job'[nJobs'].name)]_vars
  /\ [][\A w \in Workers :
          (wpc[w] = "got" /\ wpc'[w] # "got") =>
            notified' = OneEvent("started", job[wjob[w]].name)]_vars
  /\ [][\A w \in Workers :
          (wpc[w] = "process" /\ wpc'[w] = "idle") =>
            LET j == wjob[w]
            IN IF job'[j].retry_count # job[j].retry_count
               THEN notified' =
                      OneEvent(IF job'[j].status = STATUS_WAITING
                               THEN "retrying" ELSE "failed", job[j].name)
               ELSE notified' =
                      OneEvent(IF job'[j].status = STATUS_COMPLETED
                               THEN "completed" ELSE "failed", job[j].name)]_vars

\* the job objects made so far have names of their own
DistinctNames(n) ==
  \A i, k \in 1..n : i # k => job[i].name # job[k].name

\* every name of the waiting list w stands for an object whose
\* queue_position is the index of the name
PositionsAreIndexes(jb, w, d) ==
  \A i \in 1..Len(w) :
    DictHas(d, w[i]) /\ jb[DictGet(d, w[i])].queue_position = i

\* C30: among jobs of distinct names, after every add, next, complete and
\* fail each waiting job's queue_position is its index (from 1) in the
\* waiting list, and add returns the position of the added job, which is the
\* number of waiting jobs
C30_PositionsFollowWaitingList ==
  /\ [][(/\ DistinctNames(nJobs)'
         /\ \/ nJobs' = nJobs + 1
            \/ \E w \in Workers : wpc[w] = "got" /\ wpc'[w] # "got"
            \/ \E w \in Workers : wpc[w] = "process" /\ wpc'[w] = "idle") =>
          PositionsAreIndexes(job', waiting_jobs', jobs')]_vars
  /\ [][(DistinctNames(nJobs)' /\ nJobs' = nJobs + 1) =>
          /\ GetPosition(waiting_jobs', job'[nJobs'].name) = Len(waiting_jobs')
          /\ job'[nJobs'].queue_position = Len(waiting_jobs')]_vars

(* ------------------------------ checkpoints --------------------------- *)

\* the number of times a source file is appended to
MaxGrow == 3

\* one worker copies one file of two bytes that is still being appended to,
\* while opens, reads and writes may raise
InitGrow ==
  /\ InitManager
  /\ InitMonitor(AllFolders, AllExtensions)
  /\ InitFaults(MaxFaults)
  /\ job = [j \in JobIds |-> NoJob]
  /\ nJobs = 0
  /\ queue = <<>>
  /\ jobs = <<>>
  /\ waiting_jobs = <<>>
  /\ active_jobs = <<>>
  /\ completed_jobs = <<>>
  /\ failed_jobs = <<>>
  /\ wpc = [w \in Threads |-> IF w \in Workers THEN "idle" ELSE "stopped"]
  /\ wjob = [w \in Threads |-> 0]
  /\ enq = <<>>
  /\ deq = <<>>
  /\ callbacks = 0
  /\ notified = <<>>
  /\ w_attempt = [w \in Threads |-> 0]
  /\ src = [p \in SrcPaths |-> IF p = <<1, "a">> THEN 2 ELSE -1]
  /\ dst = <<>>
  /\ state_jobs = <<>>
  /\ state_file = <<>>
  /\ history = <<>>
  /\ proc = "up"
  /\ pending = {<<1, "a">>}
  /\ envLeft = MaxGrow
  /\ crashes = 0

NextGrow ==
  \/ \E p \in SrcPaths : Detect(p) /\ UNCHANGED <<mvars, dvars, fvars>>
  \/ \E w \in 1..MaxParallel : WorkerGet(w)
  \/ \E w \in 1..MaxParallel : ProcessJobPreflight(w) /\ UNCHANGED <<mvars, dvars, fvars>>
  \/ \E w \in 1..MaxParallel : SafeCopyPreflight(w) /\ UNCHANGED <<mvars, dvars, fvars>>
  \/ \E w \in 1..MaxParallel : CopyOpen(w) /\ UNCHANGED <<mvars, dvars, fvars>>
  \/ \E w \in 1..MaxParallel : CopyChunk(w) /\ UNCHANGED <<mvars, dvars, fvars>>
  \/ \E w \in 1..MaxParallel : ProcessJobSuccess(w) /\ UNCHANGED <<mvars, dvars, fvars>>
  \/ \E w \in 1..MaxParallel : ProcessJobDelete(w) /\ UNCHANGED <<mvars, dvars, fvars>>
  \/ \E w \in 1..MaxParallel : ProcessJobFailed(w) /\ UNCHANGED <<mvars, dvars, fvars>>
  \/ \E w \in 1..MaxParallel, kind \in FaultKinds : CopyFault(w, kind)
  \/ \E p \in SrcPaths : SrcChange(p, src[p] + 1) /\ UNCHANGED <<mvars, dvars, fvars>>

SpecGrow == InitGrow /\ [][NextGrow]_vars


\* the checkpoint of record rec is a multiple of CHECKPOINT_PERCENT from 0
\* to 100 and is not ahead of the progress of the record
CheckpointInStep(rec) ==
  /\ rec.last_checkpoint \in {CHECKPOINT_PERCENT * k : k \in 0..10}
  /\ rec.last_checkpoint <= (rec.progress \div 10) * 10

\* C31: for every job in every reachable state, last_checkpoint is a
\* multiple of 10 between 0 and 100 and is at most floor(progress / 10) * 10,
\* also after a job-level retry, after a resume with an adopted live size
\* and when the source grows during the copy
C31_CheckpointBehindProgress ==
  \A j \in 1..nJobs : CheckpointInStep(job[j])

(* --------------------------- terminal states -------------------------- *)

IsTerminal(rec) == rec.status \in {STATUS_COMPLETED, STATUS_FAILED}

\* inside one run of the process a job object whose status is completed or
\* failed keeps that status, is not on the queue afterwards and is not handed
\* to a worker again
TerminalAbsorbingInProcess ==
  [][\A j \in 1..nJobs :
       (proc = "up" /\ proc' = "up" /\ IsTerminal(job[j])) =>
         /\ job'[j].status = job[j].status
         /\ ~InSeq(queue', j)
         /\ \A w \in Threads : wjob'[w] = j => wjob[w] = j]_vars

\* no other source file has the name of the job
OnlySourceNamed(rec) ==
  \A p \in SrcPaths : p[2] = rec.name => p = rec.source_path

\* the history has a SUCCESS row for the name: a job of that name has
\* completed
HasSuccessRow(name) ==
  \E i \in 1..Len(history) :
    history[i].status = "SUCCESS" /\ history[i].filename = name

\* C32: terminal states are absorbing: a job that has completed (its SUCCESS
\* row is written) stays completed; it is never waiting on the queue or being
\* processed by a worker again
C32_TerminalAbsorbing ==
  \A j \in 1..nJobs :
    (OnlySourceNamed(job[j]) /\ HasSuccessRow(job[j].name)) =>
      job[j].status = STATUS_COMPLETED

(* ----------------------- the callbacks of a copy ---------------------- *)

\* what one pass of the while loop of copy_with_progress calls for the job
\* fields rec: progress_callback(copied_bytes, percent) after the write, then
\* checkpoint_callback(job) when the checkpoint has risen; nothing when the
\* loop ends or the read fails
CallsOfChunk(rec) ==
  LET pos == rec.copied_bytes
      total == rec.size_bytes
      sp == rec.source_path
  IN IF pos >= total \/ ~SrcExists(sp) \/ ReadChunk(sp, pos) = <<>>
     THEN <<>>
     ELSE LET copied == pos + Len(ReadChunk(sp, pos))
              percent == Percent(copied, total)
          IN <<[cb |-> "progress", copied_bytes |-> copied, value |-> percent]>>
             \o (IF CheckpointOf(percent) > rec.last_checkpoint
                 THEN <<[cb |-> "checkpoint", copied_bytes |-> copied,
                         value |-> CheckpointOf(percent)]>>
                 ELSE <<>>)

\* safe_copy is entered: no callback of this call has run yet
SafeCopyEnter(w) ==
  /\ SafeCopyPreflight(w)
  /\ called' = [called EXCEPT ![w] = <<>>]
  /\ UNCHANGED <<mvars, dvars, fault_left, w_delays, sv_jobs>>

\* one pass of the while loop with the callbacks it invokes
CopyChunkCalls(w) ==
  /\ CopyChunk(w)
  /\ called' = [called EXCEPT ![w] = @ \o CallsOfChunk(job[wjob[w]])]
  /\ UNCHANGED <<mvars, dvars, fault_left, w_delays, sv_jobs>>

\* one worker copies files of zero to MaxSize bytes, which may change once
\* they are queued; the process stays up and no error is raised in the copy
NextProgress ==
  \/ \E p \in SrcPaths : Detect(p) /\ UNCHANGED <<mvars, dvars, fvars>>
  \/ \E w \in 1..MaxParallel : WorkerGet(w)
  \/ \E w \in 1..MaxParallel : ProcessJobPreflight(w) /\ UNCHANGED <<mvars, dvars, fvars>>
  \/ \E w \in 1..MaxParallel : SafeCopyEnter(w)
  \/ \E w \in 1..MaxParallel : CopyOpen(w) /\ UNCHANGED <<mvars, dvars, fvars>>
  \/ \E w \in 1..MaxParallel : CopyChunkCalls(w)
  \/ \E w \in 1..MaxParallel : ProcessJobSuccess(w) /\ UNCHANGED <<mvars, dvars, fvars>>
  \/ \E w \in 1..MaxParallel : ProcessJobDelete(w) /\ UNCHANGED <<mvars, dvars, fvars>>
  \/ \E w \in 1..MaxParallel : ProcessJobFailed(w) /\ UNCHANGED <<mvars, dvars, fvars>>
  \/ \E p \in SrcPaths, to \in -1..(MaxSize + 1) : SrcChange(p, to) /\ UNCHANGED <<mvars, dvars, fvars>>

InitProgress ==
  /\ InitManager
  /\ InitMonitor(AllFolders, AllExtensions)
  /\ InitFaults(0)
  /\ job = [j \in JobIds |-> NoJob]
  /\ nJobs = 0
  /\ queue = <<>>
  /\ jobs = <<>>
  /\ waiting_jobs = <<>>
  /\ active_jobs = <<>>
  /\ completed_jobs = <<>>
  /\ failed_jobs = <<>>
  /\ wpc = [w \in Threads |-> IF w \in Workers THEN "idle" ELSE "stopped"]
  /\ wjob = [w \in Threads |-> 0]
  /\ enq = <<>>
  /\ deq = <<>>
  /\ callbacks = 0
  /\ notified = <<>>
  /\ w_attempt = [w \in Threads |-> 0]
  /\ src \in [SrcPaths -> -1..MaxSize]
  /\ src[<<2, "a">>] = -1
  /\ dst = <<>>
  /\ state_jobs = <<>>
  /\ state_file = <<>>
  /\ history = <<>>
  /\ proc = "up"
  /\ pending = {p \in SrcPaths : src[p] >= 0}
  /\ envLeft = MaxEnv
  /\ crashes = 0

SpecProgress == InitProgress /\ [][NextProgress]_vars

\* the entries of the callback history s made by callback cb
CallsOf(s, cb) == SelectSeq(s, LAMBDA e : e.cb = cb)

\* the values n(s[1]), n(s[2]), ... rise strictly
Rising(s, n(_)) == \A i \in 1..(Len(s) - 1) : n(s[i]) < n(s[i + 1])

CopiedOf(e) == e.copied_bytes

ValueOf(e) == e.value

C34_DiagnosticKept ==
  [][\A w \in 1..MaxParallel :
       (wpc[w] = "failed" /\ wpc'[w] = "idle") =>
         LET j == wjob[w]
         IN /\ job'[j].last_error = job[j].last_error
            /\ history' # history
            /\ history'[Len(history')].status = "FAILED"
            /\ history'[Len(history')].error = job[j].last_error]_vars

(* --------------------- every job reaches an end ----------------------- *)

\* a step of worker w on the queue: run asks for the next job, and the
\* attempt on the job it holds ends with complete_job or fail_job
QueueWorkerStep(w) ==
  /\ \/ QueueGet(w)
     \/ GetNextJob(w)
     \/ \E s \in BOOLEAN : ClientComplete(w, s)
     \/ \E r \in BOOLEAN : ClientFail(w, r)
  /\ UNCHANGED <<pvars, mvars, dvars, fvars>>

\* the queue under any client, with workers that keep running and attempts
\* that end
FairSpecQueue == SpecQueue /\ \A w \in Workers : WF_vars(QueueWorkerStep(w))

\* C35: every job put on the queue eventually reaches a terminal state
\* (completed or failed) when the workers keep running and every attempt
\* ends: no job stays waiting forever, and next() drops no job it has taken
\* from the queue without handing it to the worker
C35_EveryJobEnds ==
  /\ \A j \in JobIds : (nJobs >= j) ~> IsTerminal(job[j])
  /\ [][\A w \in Workers : wpc[w] = "got" => wpc'[w] # "idle"]_vars

(* ----------------------------- clear_completed ------------------------ *)

\* C36: clear_completed removes only terminal entries: every job that is
\* waiting or active when it is called is still retrievable by name
\* afterwards, which is what next() requires to hand it out, also when a job
\* of the same name has completed or failed earlier
C36_ClearKeepsLiveJobs ==
  [][(/\ completed_jobs \o failed_jobs # <<>>
      /\ completed_jobs' = <<>>
      /\ failed_jobs' = <<>>) =>
       \A j \in 1..nJobs :
         (/\ job[j].status \in {STATUS_WAITING, STATUS_DOWNLOADING}
          /\ DictHas(jobs, job[j].name)) =>
           /\ DictHas(jobs', job[j].name)
           /\ DictGet(jobs', job[j].name) = DictGet(jobs, job[j].name)]_vars

(* ---------------------- persistence after a completion ---------------- *)

\* the state file f records the job fields rec with their copied_bytes
FileRecords(f, rec) ==
  \E i \in 1..Len(f) :
    /\ f[i].k = rec.name
    /\ f[i].v.copied_bytes = rec.copied_bytes
    /\ f[i].v.status = rec.status

\* C37: state persistence keeps working after a job has completed: the save
\* that update_progress makes when a chunk brings a job to a multiple of
\* 10 % writes the state file, also when the queue snapshot contains a
\* completed job, so the file then records the job with the bytes copied
\* (among jobs of distinct names)
C37_SavesAfterCompletion ==
  [][\A w \in Workers :
       (/\ wpc[w] = "chunk"
        /\ proc' = "up"
        /\ job'[wjob[w]].copied_bytes > job[wjob[w]].copied_bytes
        /\ SavesOnProgress(job'[wjob[w]].progress)
        /\ DistinctNames(nJobs)) =>
         FileRecords(state_file', [job'[wjob[w]] EXCEPT
                                     !.last_checkpoint = job[wjob[w]].last_checkpoint])]_vars

(* ------------------------- retries across restarts -------------------- *)

\* one worker copies one file while opens, reads and writes may raise, the
\* source may be removed, and the process may be killed and started again
NextRestart ==
  \/ NextCopy
  \/ Start /\ UNCHANGED <<mvars, dvars, fvars>>
  \/ Crash /\ UNCHANGED <<mvars, dvars, fvars>>

SpecRestart == InitCopy /\ [][NextRestart]_vars

\* the number of FAILED rows of the history for the name: the copies of the
\* job that a worker started and that failed
FailedCopies(name) ==
  Cardinality({i \in 1..Len(history) :
                 history[i].status = "FAILED" /\ history[i].filename = name})

MaxOf(a, b) == IF a >= b THEN a ELSE b

\* C38: retry_count never exceeds max_retry, and the number of times a
\* worker starts a job, its failed copies before and after a restart
\* included, is at most max(1, max_retry)
C38_AttemptsBounded ==
  \A j \in 1..nJobs :
    /\ job[j].retry_count <= job[j].max_retry
    /\ DistinctNames(nJobs) =>
         FailedCopies(job[j].name) <= MaxOf(1, job[j].max_retry)

(* -------------------- the destination across attempts ----------------- *)

\* the destination files made for the file name of the job fields rec
DestFilesOf(rec) == {p \in DOMAIN dst : p[1] = rec.name}

\* C39: a job that is copied again after a job-level retry continues into
\* the destination file of its earlier attempt: safe_copy does not treat the
\* job's own partial file as a name collision, so dest_path stays the same,
\* and when the job completes exactly one destination file exists for it
C39_SameDestinationAcrossAttempts ==
  /\ [][\A w \in 1..MaxParallel :
          (/\ wpc[w] = "safe_copy"
           /\ wpc'[w] = "open"
           /\ job[wjob[w]].retry_count > 0
           /\ DstExists(job[wjob[w]].dest_path)) =>
            job'[wjob[w]].dest_path = job[wjob[w]].dest_path]_vars
  /\ [](\A j \in 1..nJobs :
          (DistinctNames(nJobs) /\ job[j].status = STATUS_COMPLETED) =>
            Cardinality(DestFilesOf(job[j])) = 1)

(* ------------------------ one worker for one job ---------------------- *)

\* the pool of two workers in a process that may be killed and started again
NextPoolRestart ==
  \/ NextPool
  \/ Start /\ UNCHANGED <<mvars, dvars, fvars>>
  \/ Crash /\ UNCHANGED <<mvars, dvars, fvars>>

\* a file of MaxSize bytes in the first folder, and a file of the same name
\* in the second folder or a file of another name
InitPoolRestart ==
  /\ Init
  /\ src[<<1, "a">>] = MaxSize
  /\ \/ src[<<2, "a">>] = 1 /\ src[<<1, "b">>] = -1
     \/ src[<<2, "a">>] = -1 /\ src[<<1, "b">>] = 1

SpecPoolRestart == InitPoolRestart /\ [][NextPoolRestart]_vars

\* C40: a job is processed by at most one worker at a time: while a worker
\* holds a job that next() took from the queue for it, no other worker holds
\* the same job and the job is not on the queue, where another worker could
\* receive it
C40_OneWorkerPerJob ==
  \A w \in Threads :
    wjob[w] # 0 =>
      /\ \A v \in Threads \ {w} : wjob[v] # wjob[w]
      /\ ~InSeq(queue, wjob[w])

\* after a restart both workers are copying, each its own job
C40_BothWorkersCopy ==
  /\ crashes = 1
  /\ \A w \in Workers : wjob[w] # 0 /\ wpc[w] = "chunk"

====
